---- MODULE Spec2Model ----
(***************************************************************************)
(* A model of mota, the mass OTA firmware updater for Shelly devices:      *)
(* the orchestrator of ota_updater.go (Setup, FilterDevices,               *)
(* PromptForUpgrades, upgradePass, UpgradeDevice, verifyUpgrade), the      *)
(* version algebra and stepping-stone policy of device.go and the catalog  *)
(* client of api.go.                                                       *)
(*                                                                         *)
(* Spec is a run of the upgrade command.  SpecAPI is the catalog client    *)
(* used on its own: lookups, and DownloadFirmware called from several      *)
(* goroutines at once.  SpecService is the service called method by        *)
(* method (DiscoverDevices, ResetDiscovery, Setup, FilterDevices,          *)
(* ListDeviceStatus).  SpecServer is the OTA server on its own: handlers   *)
(* are installed and requests arrive for any path.  SpecBrowser is a       *)
(* discovery by ListenForAnnouncements: mDNS entries or a host list, the   *)
(* settings of the devices and the scan of the subnets.  SpecCalc applies  *)
(* the functions of util.go and device.go (isVersionLessThan, ExpandCIDR)  *)
(* to inputs on their own.  SpecPool is one of the two bounded pools of    *)
(* goroutines, the Gen2 fan-out of FetchVersions or the probes of          *)
(* scanSubnetForDevices, goroutine by goroutine.                           *)
(*                                                                         *)
(* Firmware version strings are sequences of one-character strings, so     *)
(* that splitting, parsing and extraction work on the text as the code     *)
(* does.  URLs, device ids and model names are opaque strings; where the   *)
(* code looks at their characters (patterns, paths, hosts, addresses)      *)
(* Text gives the characters of a name.                                    *)
(***************************************************************************)
EXTENDS Integers, Sequences, FiniteSets, TLC

\* ------------------------------------------------------------------------
\* Bounds of the model
\* ------------------------------------------------------------------------

\* passes of PromptForUpgrades that are explored (the loop itself is unbounded)
MaxPass == 2

\* fetches of the catalog that are explored when the client is used directly
MaxFetches == 2

\* ------------------------------------------------------------------------
\* Text
\* ------------------------------------------------------------------------

Digits == {"0", "1", "2", "3", "4", "5", "6", "7", "8", "9"}

DigitVal(c) ==
    CASE c = "0" -> 0 [] c = "1" -> 1 [] c = "2" -> 2 [] c = "3" -> 3
      [] c = "4" -> 4 [] c = "5" -> 5 [] c = "6" -> 6 [] c = "7" -> 7
      [] c = "8" -> 8 [] c = "9" -> 9

\* index of the first element of s that is in set cs, 0 when there is none
RECURSIVE IndexFrom(_, _, _)
IndexFrom(s, cs, i) ==
    IF i > Len(s) THEN 0
    ELSE IF s[i] \in cs THEN i
    ELSE IndexFrom(s, cs, i + 1)

IndexAny(s, cs) == IndexFrom(s, cs, 1)

\* strings.Split(s, "."): the list of the parts between the dots
RECURSIVE SplitDots(_)
SplitDots(s) ==
    LET i == IndexAny(s, {"."})
    IN  IF i = 0 THEN <<s>>
        ELSE <<SubSeq(s, 1, i - 1)>> \o SplitDots(SubSeq(s, i + 1, Len(s)))

AllDigits(s) == Len(s) > 0 /\ \A i \in 1..Len(s) : s[i] \in Digits

RECURSIVE DecValue(_)
DecValue(s) ==
    IF Len(s) = 0 THEN 0
    ELSE 10 * DecValue(SubSeq(s, 1, Len(s) - 1)) + DigitVal(s[Len(s)])

\* strconv.Atoi: an optional sign followed by decimal digits
AtoiOk(s) ==
    IF Len(s) > 0 /\ s[1] \in {"+", "-"} THEN AllDigits(Tail(s)) ELSE AllDigits(s)

Atoi(s) ==
    IF s[1] = "-" THEN 0 - DecValue(Tail(s))
    ELSE IF s[1] = "+" THEN DecValue(Tail(s))
    ELSE DecValue(s)

\* the characters of the names, ids and addresses that occur
Texts ==
    [s \in {"shelly-aa", "shelly-bb", "192.168.1.101", "192.168.1.102",
             "192.168.1.103", "den", "Plus1", "Pro1", "SHSW-25",
             "Shelly Plus 1", "Shelly Pro 1", "Shelly 25", "id=shelly",
             "gen=2", "gen=3", "gen=4", "10.0.0.0/30", "10.0.2.0/30",
             "10.0.2/30", "10.0.2.1/30", "10.0.2.0/29", "10.0.2.0/31",
             "10.0.2.2/32", "10.0.2.0/33", "shelly-aa.local.",
             "shelly-bb.local.", "id=shelly-bb", "printer.local.",
             "ty=printer", "app=Plus1", "10.0.0.1", "10.0.0.5:80",
             "10.0.0.1:abc", "10.0.0.5", "10.0.0.1::80", "*", "10.0.0.1:",
             "den.local", "10.0.0.256", "10.0.0.1:80", ":80", "*-bb",
             "Shelly Plus 1 (*", "shelly-a?",
             "1.3.3",
             "1.10.0",
             "1.9.0",
             "2.0.0",
             "01.3.3",
             "1.-3.3",
             "1.3",
             "1.3.3.4",
             "1.x.3",
             "1..3",
             "192.168.100.0/24",
             "255.255.255.252/30",
             "not-a-cidr",
             "0.0.0.0/0",
             "10.0.0.0/8",
             "128.0.0.0/1",
             "10.0.0.1:8080",
             "admin",
             "root",
             "p@ss w",
             "pw",
             "10.0.2.2"} |->
        CASE s = "shelly-aa" ->
                 <<"s", "h", "e", "l", "l", "y", "-", "a", "a">>
          [] s = "shelly-bb" ->
                 <<"s", "h", "e", "l", "l", "y", "-", "b", "b">>
          [] s = "192.168.1.101" ->
                 <<"1", "9", "2", ".", "1", "6", "8", ".", "1", ".", "1", "0",
                   "1">>
          [] s = "192.168.1.102" ->
                 <<"1", "9", "2", ".", "1", "6", "8", ".", "1", ".", "1", "0",
                   "2">>
          [] s = "192.168.1.103" ->
                 <<"1", "9", "2", ".", "1", "6", "8", ".", "1", ".", "1", "0",
                   "3">>
          [] s = "den" ->
                 <<"d", "e", "n">>
          [] s = "Plus1" ->
                 <<"P", "l", "u", "s", "1">>
          [] s = "Pro1" ->
                 <<"P", "r", "o", "1">>
          [] s = "SHSW-25" ->
                 <<"S", "H", "S", "W", "-", "2", "5">>
          [] s = "Shelly Plus 1" ->
                 <<"S", "h", "e", "l", "l", "y", " ", "P", "l", "u", "s", " ",
                   "1">>
          [] s = "Shelly Pro 1" ->
                 <<"S", "h", "e", "l", "l", "y", " ", "P", "r", "o", " ", "1">>
          [] s = "Shelly 25" ->
                 <<"S", "h", "e", "l", "l", "y", " ", "2", "5">>
          [] s = "id=shelly" ->
                 <<"i", "d", "=", "s", "h", "e", "l", "l", "y">>
          [] s = "gen=2" ->
                 <<"g", "e", "n", "=", "2">>
          [] s = "gen=3" ->
                 <<"g", "e", "n", "=", "3">>
          [] s = "gen=4" ->
                 <<"g", "e", "n", "=", "4">>
          [] s = "10.0.0.0/30" ->
                 <<"1", "0", ".", "0", ".", "0", ".", "0", "/", "3", "0">>
          [] s = "10.0.2.0/30" ->
                 <<"1", "0", ".", "0", ".", "2", ".", "0", "/", "3", "0">>
          [] s = "10.0.2/30" ->
                 <<"1", "0", ".", "0", ".", "2", "/", "3", "0">>
          [] s = "10.0.2.1/30" ->
                 <<"1", "0", ".", "0", ".", "2", ".", "1", "/", "3", "0">>
          [] s = "10.0.2.0/29" ->
                 <<"1", "0", ".", "0", ".", "2", ".", "0", "/", "2", "9">>
          [] s = "10.0.2.0/31" ->
                 <<"1", "0", ".", "0", ".", "2", ".", "0", "/", "3", "1">>
          [] s = "10.0.2.2/32" ->
                 <<"1", "0", ".", "0", ".", "2", ".", "2", "/", "3", "2">>
          [] s = "10.0.2.0/33" ->
                 <<"1", "0", ".", "0", ".", "2", ".", "0", "/", "3", "3">>
          [] s = "shelly-aa.local." ->
                 <<"s", "h", "e", "l", "l", "y", "-", "a", "a", ".", "l", "o",
                   "c", "a", "l", ".">>
          [] s = "shelly-bb.local." ->
                 <<"s", "h", "e", "l", "l", "y", "-", "b", "b", ".", "l", "o",
                   "c", "a", "l", ".">>
          [] s = "id=shelly-bb" ->
                 <<"i", "d", "=", "s", "h", "e", "l", "l", "y", "-", "b", "b">>
          [] s = "printer.local." ->
                 <<"p", "r", "i", "n", "t", "e", "r", ".", "l", "o", "c", "a",
                   "l", ".">>
          [] s = "ty=printer" ->
                 <<"t", "y", "=", "p", "r", "i", "n", "t", "e", "r">>
          [] s = "app=Plus1" ->
                 <<"a", "p", "p", "=", "P", "l", "u", "s", "1">>
          [] s = "10.0.0.1" ->
                 <<"1", "0", ".", "0", ".", "0", ".", "1">>
          [] s = "10.0.0.5:80" ->
                 <<"1", "0", ".", "0", ".", "0", ".", "5", ":", "8", "0">>
          [] s = "10.0.0.1:abc" ->
                 <<"1", "0", ".", "0", ".", "0", ".", "1", ":", "a", "b", "c">>
          [] s = "10.0.0.5" ->
                 <<"1", "0", ".", "0", ".", "0", ".", "5">>
          [] s = "10.0.0.1::80" ->
                 <<"1", "0", ".", "0", ".", "0", ".", "1", ":", ":", "8", "0">>
          [] s = "*" ->
                 <<"*">>
          [] s = "10.0.0.1:" ->
                 <<"1", "0", ".", "0", ".", "0", ".", "1", ":">>
          [] s = "den.local" ->
                 <<"d", "e", "n", ".", "l", "o", "c", "a", "l">>
          [] s = "10.0.0.256" ->
                 <<"1", "0", ".", "0", ".", "0", ".", "2", "5", "6">>
          [] s = "10.0.0.1:80" ->
                 <<"1", "0", ".", "0", ".", "0", ".", "1", ":", "8", "0">>
          [] s = ":80" ->
                 <<":", "8", "0">>
          [] s = "*-bb" ->
                 <<"*", "-", "b", "b">>
          [] s = "Shelly Plus 1 (*" ->
                 <<"S", "h", "e", "l", "l", "y", " ", "P", "l", "u", "s", " ",
                   "1", " ", "(", "*">>
          [] s = "shelly-a?" ->
                 <<"s", "h", "e", "l", "l", "y", "-", "a", "?">>
          [] s = "1.3.3" ->
                 <<"1", ".", "3", ".", "3">>
          [] s = "1.10.0" ->
                 <<"1", ".", "1", "0", ".", "0">>
          [] s = "1.9.0" ->
                 <<"1", ".", "9", ".", "0">>
          [] s = "2.0.0" ->
                 <<"2", ".", "0", ".", "0">>
          [] s = "01.3.3" ->
                 <<"0", "1", ".", "3", ".", "3">>
          [] s = "1.-3.3" ->
                 <<"1", ".", "-", "3", ".", "3">>
          [] s = "1.3" ->
                 <<"1", ".", "3">>
          [] s = "1.3.3.4" ->
                 <<"1", ".", "3", ".", "3", ".", "4">>
          [] s = "1.x.3" ->
                 <<"1", ".", "x", ".", "3">>
          [] s = "1..3" ->
                 <<"1", ".", ".", "3">>
          [] s = "192.168.100.0/24" ->
                 <<"1", "9", "2", ".", "1", "6", "8", ".", "1", "0", "0", ".",
                   "0", "/", "2", "4">>
          [] s = "255.255.255.252/30" ->
                 <<"2", "5", "5", ".", "2", "5", "5", ".", "2", "5", "5", ".",
                   "2", "5", "2", "/", "3", "0">>
          [] s = "not-a-cidr" ->
                 <<"n", "o", "t", "-", "a", "-", "c", "i", "d", "r">>
          [] s = "0.0.0.0/0" ->
                 <<"0", ".", "0", ".", "0", ".", "0", "/", "0">>
          [] s = "10.0.0.0/8" ->
                 <<"1", "0", ".", "0", ".", "0", ".", "0", "/", "8">>
          [] s = "128.0.0.0/1" ->
                 <<"1", "2", "8", ".", "0", ".", "0", ".", "0", "/", "1">>
          [] s = "10.0.0.1:8080" ->
                 <<"1", "0", ".", "0", ".", "0", ".", "1", ":", "8", "0", "8",
                   "0">>
          [] s = "admin" ->
                 <<"a", "d", "m", "i", "n">>
          [] s = "root" ->
                 <<"r", "o", "o", "t">>
          [] s = "p@ss w" ->
                 <<"p", "@", "s", "s", " ", "w">>
          [] s = "pw" ->
                 <<"p", "w">>
          [] s = "10.0.2.2" ->
                 <<"1", "0", ".", "0", ".", "2", ".", "2">>]

\* the text of a name; a name that is not listed is the empty text
Text(s) == IF s \in DOMAIN Texts THEN Texts[s] ELSE <<>>

\* strconv.Itoa and the %v of an int: the decimal digits of n >= 0
RECURSIVE Itoa(_)
Itoa(n) ==
    LET digit == CASE n % 10 = 0 -> "0" [] n % 10 = 1 -> "1" [] n % 10 = 2 -> "2"
                   [] n % 10 = 3 -> "3" [] n % 10 = 4 -> "4" [] n % 10 = 5 -> "5"
                   [] n % 10 = 6 -> "6" [] n % 10 = 7 -> "7" [] n % 10 = 8 -> "8"
                   [] n % 10 = 9 -> "9"
    IN  IF n < 10 THEN <<digit>> ELSE Itoa(n \div 10) \o <<digit>>

\* filepath.Match for patterns made of literal characters, "*" (any run of
\* characters other than the path separator) and "?" (one such character):
\* the pattern has to match the whole name
RECURSIVE Match(_, _)
Match(pattern, name) ==
    IF pattern = <<>> THEN name = <<>>
    ELSE IF pattern[1] = "*"
         THEN \/ Match(Tail(pattern), name)
              \/ name # <<>> /\ name[1] # "/" /\ Match(pattern, Tail(name))
    ELSE IF pattern[1] = "?"
         THEN name # <<>> /\ name[1] # "/" /\ Match(Tail(pattern), Tail(name))
    ELSE name # <<>> /\ name[1] = pattern[1] /\ Match(Tail(pattern), Tail(name))

\* matchesAnyPattern: some pattern of the list matches the name
matchesAnyPattern(patterns, name) == \E pattern \in patterns : Match(pattern, name)

\* containsString
containsString(haystack, needle) == needle \in haystack

\* ------------------------------------------------------------------------
\* Version algebra (device.go)
\* ------------------------------------------------------------------------

\* parseVersion: err is TRUE unless v is exactly three integers joined by dots
parseVersion(v) ==
    LET parts == SplitDots(v)
    IN  IF Len(parts) # 3 THEN [major |-> 0, minor |-> 0, patch |-> 0, err |-> TRUE]
        ELSE IF ~AtoiOk(parts[1]) THEN [major |-> 0, minor |-> 0, patch |-> 0, err |-> TRUE]
        ELSE IF ~AtoiOk(parts[2]) THEN [major |-> 0, minor |-> 0, patch |-> 0, err |-> TRUE]
        ELSE IF ~AtoiOk(parts[3]) THEN [major |-> 0, minor |-> 0, patch |-> 0, err |-> TRUE]
        ELSE [major |-> Atoi(parts[1]), minor |-> Atoi(parts[2]),
              patch |-> Atoi(parts[3]), err |-> FALSE]

\* a faulty variant of isVersionLessThan: equal patches count as less
isVersionLessOrEqual(a, b) ==
    LET pa == parseVersion(a)
        pb == parseVersion(b)
    IN  IF pa.err THEN FALSE
        ELSE IF pb.err THEN FALSE
        ELSE IF pa.major # pb.major THEN pa.major < pb.major
        ELSE IF pa.minor # pb.minor THEN pa.minor < pb.minor
        ELSE pa.patch <= pb.patch

isVersionLessThan(a, b) ==
    LET pa == parseVersion(a)
        pb == parseVersion(b)
    IN  IF pa.err THEN FALSE
        ELSE IF pb.err THEN FALSE
        ELSE IF pa.major # pb.major THEN pa.major < pb.major
        ELSE IF pa.minor # pb.minor THEN pa.minor < pb.minor
        ELSE pa.patch < pb.patch

\* extractSemanticVersion: drop everything up to the first "v" when there is
\* one, cut at the first "-", "@", "+" or blank, and keep the rest when it is
\* a MAJOR.MINOR.PATCH text; the empty text otherwise.
extractSemanticVersion(raw) ==
    LET v == IndexAny(raw, {"v"})
        s == IF v = 0 THEN raw ELSE SubSeq(raw, v + 1, Len(raw))
        c == IndexAny(s, {"-", "@", "+", " "})
        t == IF c = 0 THEN s ELSE SubSeq(s, 1, c - 1)
    IN  IF parseVersion(t).err THEN <<>> ELSE t


\* ------------------------------------------------------------------------
\* Firmware descriptors, catalog and stepping-stone table (api.go, device.go)
\* ------------------------------------------------------------------------

V_empty == <<>>
V_1_0_0 == <<"1", ".", "0", ".", "0">>
V_1_2_0 == <<"1", ".", "2", ".", "0">>
V_1_2_0_b1 == <<"1", ".", "2", ".", "0", "-", "b", "1">>
V_1_3_3 == <<"1", ".", "3", ".", "3">>
V_1_4_0_beta == <<"1", ".", "4", ".", "0", "-", "b", "e", "t", "a">>
V_1_5_0 == <<"1", ".", "5", ".", "0">>
V_1_6_0_beta == <<"1", ".", "6", ".", "0", "-", "b", "e", "t", "a">>
\* the Gen1 form: build date, "/v", version, "@", commit
V_gen1_1_0_0 == <<"2", "0", "-", "0", "9", "/", "v", "1", ".", "0", ".", "0", "@", "0", "d">>
V_gen1_1_6_0 == <<"2", "0", "-", "1", "0", "/", "v", "1", ".", "6", ".", "0", "@", "4", "3">>

\* RemoteFirmware{}: the zero value, "no target"
NoFirmware ==
    [Model |-> "", URL |-> "", Version |-> V_empty, BetaURL |-> "", BetaVersion |-> V_empty]

\* the catalog without entries (a nil or an empty map)
EmptyMap == [x \in {} |-> NoFirmware]

steppingStoneVersion == V_1_3_3

SteppingStoneModels ==
    {"Plus1", "Plus1PM", "Plus1PMMini", "Plus2PM", "PlusI4", "PlusPlugS",
     "Mini1G3", "Mini1PMG3", "i4G3", "1G3", "1PMG3"}

SteppingStoneURL(m) ==
    CASE m = "Plus1" -> "https://fwcdn.shelly.cloud/gen2/Plus1/ddd5a7b4"
      [] m = "Plus1PM" -> "https://fwcdn.shelly.cloud/gen2/Plus1PM/cc34adf8"
      [] m = "Plus1PMMini" -> "https://fwcdn.shelly.cloud/gen2/Plus1PMMini/72efef59"
      [] m = "Plus2PM" -> "https://fwcdn.shelly.cloud/gen2/Plus2PM/eea874bc"
      [] m = "PlusI4" -> "https://fwcdn.shelly.cloud/gen2/PlusI4/a341e6b3"
      [] m = "PlusPlugS" -> "https://fwcdn.shelly.cloud/gen2/PlusPlugS/b537c977"
      [] m = "Mini1G3" -> "https://fwcdn.shelly.cloud/gen2/Mini1G3/ad6a3801"
      [] m = "Mini1PMG3" -> "https://fwcdn.shelly.cloud/gen2/Mini1PMG3/ac3e0a3d"
      [] m = "i4G3" -> "https://fwcdn.shelly.cloud/gen2/I4G3/cff09b11"
      [] m = "1G3" -> "https://fwcdn.shelly.cloud/gen2/S1G3/0021ac49"
      [] m = "1PMG3" -> "https://fwcdn.shelly.cloud/gen2/S1PMG3/05279747"

\* steppingStone133: the mandatory 1.3.3 firmware of each listed Gen2+ model
steppingStone133 ==
    [m \in SteppingStoneModels |->
        [Model |-> m, URL |-> SteppingStoneURL(m), Version |-> V_1_3_3,
         BetaURL |-> "", BetaVersion |-> V_empty]]

\* gen2PlusAPINames: internal model name -> update-API name
gen2PlusAPINames ==
    [m \in {"1G3", "1PMG3", "2PMG3", "i4G3", "1G4", "1PMG4", "2PMG4", "i4G4"} |->
        CASE m = "1G3" -> "S1G3" [] m = "1PMG3" -> "S1PMG3" [] m = "2PMG3" -> "S2PMG3"
          [] m = "i4G3" -> "I4G3" [] m = "1G4" -> "S1G4" [] m = "1PMG4" -> "S1PMG4"
          [] m = "2PMG4" -> "S2PMG4" [] m = "i4G4" -> "I4G4"]

\* gen2PlusDeviceAliases: variant model name -> base model name
gen2PlusDeviceAliases == [m \in {"S2PMG4ZB"} |-> "2PMG4"]

\* a faulty variant of GetLatestFirmwareAvailable: the alias table is tried
\* before the catalog itself
GetLatestFirmwareAvailableAliasFirst(firmwares, model) ==
    IF model \in DOMAIN gen2PlusDeviceAliases
       /\ gen2PlusDeviceAliases[model] \in DOMAIN firmwares
    THEN [fw |-> firmwares[gen2PlusDeviceAliases[model]], err |-> FALSE]
    ELSE IF model \in DOMAIN firmwares THEN [fw |-> firmwares[model], err |-> FALSE]
    ELSE LET hits == {i \in DOMAIN gen2PlusAPINames :
                        gen2PlusAPINames[i] = model /\ i \in DOMAIN firmwares}
         IN  IF hits # {} THEN [fw |-> firmwares[CHOOSE i \in hits : TRUE], err |-> FALSE]
             ELSE [fw |-> NoFirmware, err |-> TRUE]

\* The result of a catalog lookup: [fw, err]
GetLatestFirmwareAvailable(firmwares, model) ==
    IF model \in DOMAIN firmwares THEN [fw |-> firmwares[model], err |-> FALSE]
    ELSE IF model \in DOMAIN gen2PlusDeviceAliases
            /\ gen2PlusDeviceAliases[model] \in DOMAIN firmwares
         THEN [fw |-> firmwares[gen2PlusDeviceAliases[model]], err |-> FALSE]
    ELSE LET hits == {i \in DOMAIN gen2PlusAPINames :
                        gen2PlusAPINames[i] = model /\ i \in DOMAIN firmwares}
         IN  IF hits # {} THEN [fw |-> firmwares[CHOOSE i \in hits : TRUE], err |-> FALSE]
             ELSE [fw |-> NoFirmware, err |-> TRUE]

\* NeedsSteppingStone: [fw, needed].  The test is made on the raw firmware
\* string of the device record.
NeedsSteppingStone(device) ==
    IF device.Generation < 2 THEN [fw |-> NoFirmware, needed |-> FALSE]
    ELSE IF ~isVersionLessThan(device.FirmwareVersion, steppingStoneVersion)
         THEN [fw |-> NoFirmware, needed |-> FALSE]
    ELSE IF device.Model \in DOMAIN steppingStone133
         THEN [fw |-> steppingStone133[device.Model], needed |-> TRUE]
    ELSE [fw |-> NoFirmware, needed |-> FALSE]

\* a faulty variant of ResolveTarget: the comparison is made first and the
\* stepping-stone test only when it fails
ResolveTargetNoContinue(device, firmwares, betas) ==
    LET r == GetLatestFirmwareAvailable(firmwares, device.Model)
        dv == extractSemanticVersion(device.FirmwareVersion)
        rv == extractSemanticVersion(r.fw.Version)
        rb == extractSemanticVersion(r.fw.BetaVersion)
    IN  IF r.err THEN device.FirmwareNewestVersion
        ELSE IF isVersionLessThan(dv, rv)
                \/ (betas /\ rb # V_empty /\ isVersionLessThan(dv, rb))
             THEN r.fw
        ELSE IF NeedsSteppingStone(device).needed THEN NeedsSteppingStone(device).fw
        ELSE device.FirmwareNewestVersion

\* a faulty variant of ResolveTarget: the catalog entry is assigned without the
\* comparison
ResolveTargetAlways(device, firmwares, betas) ==
    LET r == GetLatestFirmwareAvailable(firmwares, device.Model)
    IN  IF r.err THEN device.FirmwareNewestVersion
        ELSE IF NeedsSteppingStone(device).needed THEN NeedsSteppingStone(device).fw
        ELSE r.fw

\* The target Setup and refreshFirmwareTargets give one device (the body of
\* their loops): no catalog entry, skip; stepping-stone, take it and skip the
\* comparison; otherwise the catalog entry when the device is behind the
\* stable version, or behind the beta version in beta mode.
ResolveTarget(device, firmwares, betas) ==
    LET r == GetLatestFirmwareAvailable(firmwares, device.Model)
        dv == extractSemanticVersion(device.FirmwareVersion)
        rv == extractSemanticVersion(r.fw.Version)
        rb == extractSemanticVersion(r.fw.BetaVersion)
    IN  IF r.err THEN device.FirmwareNewestVersion
        ELSE IF NeedsSteppingStone(device).needed THEN NeedsSteppingStone(device).fw
        ELSE IF isVersionLessThan(dv, rv)
                \/ (betas /\ rb # V_empty /\ isVersionLessThan(dv, rb))
             THEN r.fw
        ELSE device.FirmwareNewestVersion


\* FetchVersions on a client that holds firmwares, when the vendor's endpoints
\* hold catalog and can be reached or not (up): [firmwares, err, client,
\* fetched], the map and the error it returns, the map the client holds
\* afterwards and whether the endpoints were asked.  A client that holds a
\* non-empty map returns it; otherwise the endpoints are asked, and when the
\* Gen1 list cannot be fetched the call returns nil and the error.
FetchVersions(firmwares, catalog, up) ==
    IF Cardinality(DOMAIN firmwares) > 0
    THEN [firmwares |-> firmwares, err |-> FALSE, client |-> firmwares,
          fetched |-> FALSE]
    ELSE IF ~up
    THEN [firmwares |-> EmptyMap, err |-> TRUE, client |-> firmwares, fetched |-> TRUE]
    ELSE [firmwares |-> catalog, err |-> FALSE, client |-> catalog, fetched |-> TRUE]

\* n calls of GetLatestFirmwareAvailable in a row, each of which starts with
\* FetchVersions: [client, fetches], the map the client holds afterwards and
\* how many times the endpoints were asked
RECURSIVE CatalogAfter(_, _, _, _)
CatalogAfter(firmwares, catalog, up, n) ==
    IF n = 0 THEN [client |-> firmwares, fetches |-> 0]
    ELSE LET r == FetchVersions(firmwares, catalog, up)
             rest == CatalogAfter(r.client, catalog, up, n - 1)
         IN  [client |-> rest.client,
              fetches |-> rest.fetches + (IF r.fetched THEN 1 ELSE 0)]

\* StableID and BetaID, the keys of the download cache
StableID(f) == [model |-> f.Model, version |-> f.Version, channel |-> "stable"]

BetaID(f) == [model |-> f.Model, version |-> f.BetaVersion, channel |-> "beta"]

\* the empty path
NoFile == [model |-> "", version |-> V_empty]

\* the empty download cache
NoDownloads == [x \in {} |-> NoFile]

\* a faulty variant of DownloadFirmware: the cache is not consulted
DownloadFirmwareNoCache(cache, remoteFirmware, betaVersion, serverOk) ==
    LET id == IF betaVersion THEN BetaID(remoteFirmware) ELSE StableID(remoteFirmware)
        url == IF betaVersion THEN remoteFirmware.BetaURL ELSE remoteFirmware.URL
        version == IF betaVersion THEN remoteFirmware.BetaVersion ELSE remoteFirmware.Version
        fullPath == [model |-> remoteFirmware.Model, version |-> version]
    IN  IF url = "" THEN [path |-> NoFile, err |-> TRUE, cache |-> cache, get |-> {}]
        ELSE IF ~serverOk THEN [path |-> NoFile, err |-> TRUE, cache |-> cache, get |-> {id}]
        ELSE [path |-> fullPath, err |-> FALSE, get |-> {id},
              cache |-> [k \in DOMAIN cache \cup {id} |->
                            IF k = id THEN fullPath ELSE cache[k]]]

\* DownloadFirmware: [path, err, cache, get].  A cached id is answered with the
\* path the cache holds and is not fetched again; an empty URL cannot be
\* fetched; serverOk is the vendor's answer to the GET; the local file is
\* named after the model and the version of the chosen channel and its path
\* is stored under the id.  get holds the id when a GET was sent.
DownloadFirmware(cache, remoteFirmware, betaVersion, serverOk) ==
    LET id == IF betaVersion THEN BetaID(remoteFirmware) ELSE StableID(remoteFirmware)
        url == IF betaVersion THEN remoteFirmware.BetaURL ELSE remoteFirmware.URL
        version == IF betaVersion THEN remoteFirmware.BetaVersion ELSE remoteFirmware.Version
        fullPath == [model |-> remoteFirmware.Model, version |-> version]
    IN  IF id \in DOMAIN cache
        THEN [path |-> cache[id], err |-> FALSE, cache |-> cache, get |-> {}]
        ELSE IF url = "" THEN [path |-> NoFile, err |-> TRUE, cache |-> cache, get |-> {}]
        ELSE IF ~serverOk THEN [path |-> NoFile, err |-> TRUE, cache |-> cache, get |-> {id}]
        ELSE [path |-> fullPath, err |-> FALSE, get |-> {id},
              cache |-> [k \in DOMAIN cache \cup {id} |->
                            IF k = id THEN fullPath ELSE cache[k]]]

\* ------------------------------------------------------------------------
\* Devices
\* ------------------------------------------------------------------------

\* the devices on the network, by device id
DevSeq == <<"shelly-aa", "shelly-bb">>

DeviceID(i) == DevSeq[i]

DeviceIP(i) ==
    CASE i = 1 -> "192.168.1.101" [] i = 2 -> "192.168.1.102" [] OTHER -> "192.168.1.103"

DevIndex == 1..Len(DevSeq)

Devs == {DeviceID(i) : i \in DevIndex}

IndexOf(d) == CHOOSE i \in DevIndex : DeviceID(i) = d

\* the name each device has been given in its settings, if any
DeviceName(i) == IF i = 2 THEN "den" ELSE ""

\* shellies: the family-friendly name of a model
shellies ==
    [m \in {"Plus1", "Pro1", "SHSW-25"} |->
        CASE m = "Plus1" -> "Shelly Plus 1" [] m = "Pro1" -> "Shelly Pro 1"
          [] m = "SHSW-25" -> "Shelly 25"]

FamilyFriendlyName(device) ==
    IF device.Model # "" /\ device.Model \in DOMAIN shellies THEN shellies[device.Model]
    ELSE device.Model

\* Device.String: "name (id@ip:port)", with the family-friendly name of the
\* model for a device without a name
String(device) ==
    Text(IF device.Name = "" THEN FamilyFriendlyName(device) ELSE device.Name)
        \o <<" ", "(">> \o Text(device.ID) \o <<"@">> \o Text(device.IP)
        \o <<":">> \o Itoa(device.Port) \o <<")">>

\* BaseURL and OTAURL: the parts the formatted URL is made of
BaseURL(device) ==
    [user |-> device.Username, pass |-> device.Password, ip |-> device.IP,
     port |-> device.Port]

\* a faulty variant of OTAURL: the path names the model, not the given file
OTAURLByModel(device, otaServerHost, otaServerPort, otaFilename) ==
    [base |-> BaseURL(device), host |-> otaServerHost, port |-> otaServerPort,
     path |-> device.Model]

OTAURL(device, otaServerHost, otaServerPort, otaFilename) ==
    [base |-> BaseURL(device), host |-> otaServerHost, port |-> otaServerPort,
     path |-> otaFilename]

NoURL == [base |-> [user |-> "", pass |-> "", ip |-> "", port |-> 0],
          host |-> "", port |-> 0, path |-> ""]

\* the address and port the OTA server of this run is bound to
serverIP == "10.0.0.1"

serverPort == 8080


\* ------------------------------------------------------------------------
\* State
\* ------------------------------------------------------------------------

VARIABLES
    force,            \* OTAService.force
    includeBetas,     \* OTAService.includeBetas
    modelFilter,      \* OTAService.modelFilter
    excludePatterns,  \* OTAService.excludePatterns
    vendor,           \* what the vendor's catalog endpoints answer
    hw,               \* each physical device's model and generation
    devFw,            \* the firmware string each physical device reports now
    devOrder,         \* the OTA command each physical device still has to act on
    pc,               \* where the orchestrator is
    pass,             \* the pass counter of PromptForUpgrades
    devices,          \* OTAService.devices: [set: it is not nil, map: its entries]
    firmwares,        \* APIClient.firmwares, the catalog cache
    firmwareCache,    \* APIClient.firmwareCache, the download cache
    deviceHandlers,   \* OTAService.deviceHandlers
    remaining,        \* the devices upgradePass has still to visit
    hadSteppingStone, \* upgradePass's flag
    worker,           \* the UpgradeDevice goroutine of each device in this pass
    doneCh,           \* a handler is blocked sending on the worker's channel
    envFault,         \* history: a vendor download or a discovery has failed
    prevFw,           \* history: the firmware each device had in the previous index
    seenFw,           \* history: the firmware each device had at the latest
                      \* (re-)discovery step
    apiUp,            \* whether the vendor's catalog endpoints can be reached
    prompted,         \* history: the devices a prompt was shown for in this pass
    vendorGets,       \* history: the fetches the vendor's servers have received
    calls,            \* DownloadFirmware calls made directly on the client, in progress
    files,            \* the files of the download directory
    lookup,           \* the result of the latest direct GetLatestFirmwareAvailable call
    scans,            \* history: the runs of ListenForAnnouncements made for the service
    returned,         \* what DiscoverDevices returned, when it was the latest call
    statuses,         \* what ListDeviceStatus returned, when it was the latest call
    installs,         \* history: the handlers stored for each device id, oldest first
    request,          \* the latest request the OTA server has answered
    lan,              \* the local network of a discovery: interfaces, devices, announcements
    browser,          \* the run of ListenForAnnouncements
    calc,             \* a function of the program applied to inputs on its own
    pool              \* a bounded pool of goroutines: FetchVersions, the subnet scan

vars ==
    <<force, includeBetas, modelFilter, vendor, hw, devFw, devOrder, pc, pass,
      devices, firmwares, firmwareCache, deviceHandlers, remaining,
      hadSteppingStone, worker, doneCh, envFault, prevFw, seenFw, apiUp,
      prompted, vendorGets, calls, files, lookup, excludePatterns, scans,
      returned, statuses, installs, request, lan, browser, calc, pool>>

\* the iterations of the loop of ExpandCIDR that are followed
MaxIterations == 260

\* the Gen2+ models FetchVersions asks the vendor about, the addresses a
\* subnet scan probes, and the devices among them
MaxModels == 11

MaxAddresses == 51

MaxFound == 2

config == <<force, includeBetas, modelFilter, excludePatterns, vendor, hw, apiUp>>

\* the state of the direct use of the catalog client
apiUse == <<calls, files, lookup>>

\* the state of the parts that are also run on their own: the service called
\* method by method, the OTA server, the discovery
standalone ==
    <<scans, returned, statuses, installs, request, lan, browser, calc, pool>>

\* the kinds of device on the network: model, generation, reported firmware
Profiles ==
    << [Model |-> "Plus1", Generation |-> 2, fw |-> V_1_0_0],
       [Model |-> "Plus1", Generation |-> 2, fw |-> V_1_2_0_b1],
       [Model |-> "Pro1", Generation |-> 2, fw |-> V_1_0_0],
       [Model |-> "SHSW-25", Generation |-> 1, fw |-> V_gen1_1_0_0] >>

CatalogEntry(m, v, u, bv, bu) ==
    [Model |-> m, URL |-> u, Version |-> v, BetaURL |-> bu, BetaVersion |-> bv]

\* the catalogs the vendor may hold
Catalogs ==
    { [m \in {"Plus1", "Pro1", "SHSW-25"} |->
         CASE m = "Plus1" ->
                CatalogEntry(m, V_1_5_0, "http://vendor/firmware/Plus1_stable.zip",
                             V_1_6_0_beta, "http://vendor/firmware/Plus1_beta.zip")
           [] m = "Pro1" ->
                CatalogEntry(m, V_1_5_0, "http://vendor/firmware/Pro1_stable.zip",
                             V_empty, "")
           [] m = "SHSW-25" ->
                CatalogEntry(m, V_gen1_1_6_0, "http://vendor/firmware/SHSW-25_build.zip",
                             V_empty, "")],
      [m \in {"Plus1", "Pro1", "SHSW-25"} |->
         CASE m = "Plus1" ->
                CatalogEntry(m, V_1_2_0, "http://vendor/firmware/Plus1_stable.zip",
                             V_1_4_0_beta, "http://vendor/firmware/Plus1_beta.zip")
           [] m = "Pro1" ->
                CatalogEntry(m, V_1_3_3, "http://vendor/firmware/Pro1_stable.zip",
                             V_empty, "")
           [] m = "SHSW-25" ->
                CatalogEntry(m, V_gen1_1_6_0, "http://vendor/firmware/SHSW-25_build.zip",
                             V_empty, "")],
      EmptyMap }

\* the goroutines that call DownloadFirmware directly
Callers == {"g1", "g2"}

\* a direct DownloadFirmware call that has not been made: its stage, its
\* arguments, whether its GET was answered with the firmware, and what it
\* returned
IdleCall == [stage |-> "idle", fw |-> NoFirmware, beta |-> FALSE, fetched |-> FALSE,
             path |-> NoFile, err |-> FALSE]

\* the empty download directory
NoFiles == [x \in {} |-> "complete"]

\* no direct lookup has been made
NoLookup == [model |-> "", fw |-> NoFirmware, err |-> FALSE]

\* the nil device index
NilDevices == [set |-> FALSE, map |-> EmptyMap]

\* the exclude patterns that are given: none, one that matches the id of the
\* second device, one that matches its name, one that matches the string form
\* of every unnamed device of a model, and one that matches the id of the
\* first device
ExcludeInputs ==
    { {}, {Text("*-bb")}, {Text("den")}, {Text("Shelly Plus 1 (*")},
      {Text("shelly-a?")} }

\* no direct DiscoverDevices call has returned
NoReturn == [index |-> NilDevices, err |-> FALSE]

\* no handler
NoHandler == [device |-> "", file |-> NoFile, pass |-> 0]

\* the OTA server has answered no request
NoRequest == [path |-> <<>>, status |-> 0, handler |-> NoHandler]

\* no .netrc file, or one without entries
NoNetrc == <<>>

\* no global credentials
NoGlobal == [username |-> <<>>, password |-> <<>>]

\* no network to discover: no device, no interface, no --subnet range, no
\* host list, no announcement, no mDNS, and no credentials
NoLan == [network |-> <<>>, ifaces |-> <<>>, subnets |-> <<>>, hosts |-> <<>>,
          announcements |-> <<>>, mdns |-> FALSE, netrc |-> NoNetrc,
          global |-> NoGlobal]

\* ListenForAnnouncements has not been called: where it is, the entry that
\* is next, the addresses findShellies has seen, the announcements whose
\* settings have not been fetched, the devices received, the error, whether
\* the entries channel is closed, and where the goroutines of findShellies
\* and of fetchSettings are
NoBrowser == [pc |-> "idle", next |-> 1, seen |-> {}, found |-> {},
              devices |-> <<>>, err |-> FALSE, entries |-> "open",
              finder |-> "idle", fetcher |-> "idle"]

\* the parts that are run on their own are not in use
ServiceIdle ==
    /\ scans = 0
    /\ returned = NoReturn
    /\ statuses = <<>>

ServerIdle ==
    /\ installs = [d \in Devs |-> <<>>]
    /\ request = NoRequest

\* no function is applied on its own, no pool of goroutines is run on its own
NoCalc == [pc |-> "idle"]

NoPool == [pc |-> "idle"]

AloneIdle ==
    /\ calc = NoCalc
    /\ pool = NoPool

StandaloneIdle ==
    /\ ServiceIdle
    /\ ServerIdle
    /\ lan = NoLan
    /\ browser = NoBrowser
    /\ AloneIdle

\* an UpgradeDevice goroutine that has not been started: its stage, the file it
\* serves, its trigger URL and the trigger GETs it has sent, whether its handler
\* has served the file, the polls the running verifyUpgrade has made, whether
\* one of its polls returned the version of the served file, the outcome of
\* verifyUpgrade and what UpgradeDevice returned
IdleWorker == [stage |-> "idle", file |-> NoFile,
               url |-> NoURL, gets |-> 0, served |-> FALSE, polls |-> 0,
               matched |-> FALSE, verdict |-> "none", ret |-> "none"]

Init ==
    /\ force \in BOOLEAN
    /\ includeBetas \in BOOLEAN
    /\ modelFilter \in {{}, {"Pro1"}}
    /\ excludePatterns \in ExcludeInputs
    /\ excludePatterns # {} => modelFilter = {}
    /\ vendor \in Catalogs
    /\ apiUp \in BOOLEAN
    /\ ~apiUp => vendor = EmptyMap
    /\ \E p \in [DevIndex -> 1..Len(Profiles)] :
         /\ \A i, j \in DevIndex : i < j => p[i] <= p[j]
         /\ hw = [d \in Devs |-> [Model |-> Profiles[p[IndexOf(d)]].Model,
                                  Generation |-> Profiles[p[IndexOf(d)]].Generation]]
         /\ devFw = [d \in Devs |-> Profiles[p[IndexOf(d)]].fw]
    /\ devOrder = [d \in Devs |-> NoURL]
    /\ pc = "setup"
    /\ pass = 0
    /\ devices = NilDevices
    /\ firmwares = EmptyMap
    /\ firmwareCache = NoDownloads
    /\ deviceHandlers = EmptyMap
    /\ remaining = {}
    /\ hadSteppingStone = FALSE
    /\ worker = [d \in Devs |-> IdleWorker]
    /\ doneCh = [d \in Devs |-> FALSE]
    /\ envFault = FALSE
    /\ prevFw = [d \in Devs |-> V_empty]
    /\ seenFw = [d \in Devs |-> V_empty]
    /\ prompted = {}
    /\ vendorGets = [catalog |-> 0, firmware |-> [x \in {} |-> 0]]
    /\ calls = [c \in Callers |-> IdleCall]
    /\ files = NoFiles
    /\ lookup = NoLookup
    /\ StandaloneIdle


\* ------------------------------------------------------------------------
\* Discovery, targets, filter (ota_updater.go)
\* ------------------------------------------------------------------------

\* ListenForAnnouncements: one Device per device that answers, built from its
\* settings response, with no target yet
ListenForAnnouncements ==
    [d \in Devs |->
        [ID |-> d, IP |-> DeviceIP(IndexOf(d)), Port |-> 80,
         Name |-> DeviceName(IndexOf(d)),
         Username |-> "", Password |-> "",
         Model |-> hw[d].Model, Generation |-> hw[d].Generation,
         FirmwareVersion |-> devFw[d], FirmwareNewestVersion |-> NoFirmware]]

\* a faulty variant of DiscoverDevices: every call runs a discovery
DiscoverDevicesAlways == [set |-> TRUE, map |-> ListenForAnnouncements]

\* DiscoverDevices: the cached index when there is one, a discovery otherwise
DiscoverDevices ==
    IF devices.set THEN devices ELSE [set |-> TRUE, map |-> ListenForAnnouncements]

\* the loop of Setup and of refreshFirmwareTargets over the index
ResolveTargets(index, catalog) ==
    [d \in DOMAIN index |->
        [index[d] EXCEPT !.FirmwareNewestVersion =
            ResolveTarget(index[d], catalog, includeBetas)]]

\* Setup, first part: the server is started and the devices are discovered
SetupDiscover ==
    /\ pc = "setup"
    /\ \/ /\ devices' = DiscoverDevices
          /\ pc' = "setupTargets"
          /\ seenFw' = devFw
          /\ UNCHANGED envFault
       \/ /\ ~devices.set
          /\ pc' = "failed"
          /\ envFault' = TRUE
          /\ UNCHANGED <<devices, seenFw>>
    /\ UNCHANGED <<config, apiUse, standalone, prompted, vendorGets,
                   devFw, devOrder, pass, firmwares, firmwareCache,
                   deviceHandlers, remaining, hadSteppingStone, worker, doneCh, prevFw>>

\* Setup, second part: the target of every discovered device
SetupTargets ==
    /\ pc = "setupTargets"
    /\ LET c == CatalogAfter(firmwares, vendor, apiUp, Cardinality(DOMAIN devices.map))
       IN  /\ firmwares' = c.client
           /\ vendorGets' = [vendorGets EXCEPT !.catalog = @ + c.fetches]
    /\ devices' = [devices EXCEPT !.map = ResolveTargets(devices.map, firmwares')]
    /\ pc' = "filter"
    /\ UNCHANGED <<config, apiUse, standalone, prompted,
                   devFw, devOrder, pass, firmwareCache, deviceHandlers,
                   remaining, hadSteppingStone, worker, doneCh, envFault, prevFw, seenFw>>

\* a faulty variant of Kept: the filter looks at the model only
KeptByModel(index) ==
    IF modelFilter = {} THEN DOMAIN index
    ELSE {d \in DOMAIN index : containsString(modelFilter, index[d].Model)}

\* FilterDevices: without a model filter and without exclude patterns every
\* device stays; otherwise a device goes when there is a model filter and
\* its model is not listed, or when its string form, its name or its id
\* matches an exclude pattern
Kept(index) ==
    IF modelFilter = {} /\ excludePatterns = {} THEN DOMAIN index
    ELSE {d \in DOMAIN index :
            /\ ~(modelFilter # {} /\ ~containsString(modelFilter, index[d].Model))
            /\ ~\/ matchesAnyPattern(excludePatterns, String(index[d]))
                 \/ matchesAnyPattern(excludePatterns, Text(index[d].Name))
                 \/ matchesAnyPattern(excludePatterns, Text(index[d].ID))}

FilterDevices ==
    /\ pc = "filter"
    /\ devices' = [devices EXCEPT !.map = [d \in Kept(devices.map) |-> devices.map[d]]]
    /\ pc' = "pass"
    /\ UNCHANGED <<config, apiUse, standalone, prompted, vendorGets,
                   devFw, devOrder, pass, firmwares, firmwareCache,
                   deviceHandlers, remaining, hadSteppingStone, worker, doneCh,
                   envFault, prevFw, seenFw>>

\* a faulty variant of ResetDiscovery: the index is kept
ResetDiscoveryKeep(index) == index

\* ResetDiscovery: the index becomes nil
ResetDiscovery(index) == NilDevices

\* refreshFirmwareTargets, first part: the devices are discovered again
refreshDiscover ==
    /\ pc = "refresh"
    /\ \/ /\ devices' = DiscoverDevices
          /\ pc' = "refreshTargets"
          /\ seenFw' = devFw
          /\ UNCHANGED envFault
       \/ /\ ~devices.set
          /\ pc' = "failed"
          /\ envFault' = TRUE
          /\ UNCHANGED <<devices, seenFw>>
    /\ UNCHANGED <<config, apiUse, standalone, prompted, vendorGets,
                   devFw, devOrder, pass, firmwares, firmwareCache,
                   deviceHandlers, remaining, hadSteppingStone, worker, doneCh, prevFw>>

\* refreshFirmwareTargets, second part: the targets are computed again
refreshTargets ==
    /\ pc = "refreshTargets"
    /\ LET c == CatalogAfter(firmwares, vendor, apiUp, Cardinality(DOMAIN devices.map))
       IN  /\ firmwares' = c.client
           /\ vendorGets' = [vendorGets EXCEPT !.catalog = @ + c.fetches]
    /\ devices' = [devices EXCEPT !.map = ResolveTargets(devices.map, firmwares')]
    /\ pc' = "filter"
    /\ UNCHANGED <<config, apiUse, standalone, prompted,
                   devFw, devOrder, pass, firmwareCache, deviceHandlers,
                   remaining, hadSteppingStone, worker, doneCh, envFault, prevFw, seenFw>>


\* ------------------------------------------------------------------------
\* upgradePass and PromptForUpgrades (ota_updater.go)
\* ------------------------------------------------------------------------

AllWorkersIdle == [d \in Devs |-> IdleWorker]

\* the GETs received so far, by what was asked for, with those of ids added
Counted(gets, ids) ==
    [k \in DOMAIN gets \cup ids |->
        (IF k \in DOMAIN gets THEN gets[k] ELSE 0) + (IF k \in ids THEN 1 ELSE 0)]

\* upgradePass begins: the index is read (from the cache) and the loop starts
upgradePassBegin ==
    /\ pc = "pass"
    /\ devices' = DiscoverDevices
    /\ pass' = pass + 1
    /\ remaining' = DOMAIN devices'.map
    /\ hadSteppingStone' = FALSE
    /\ worker' = AllWorkersIdle
    /\ doneCh' = [d \in Devs |-> FALSE]
    /\ prompted' = {}
    /\ pc' = "loop"
    /\ UNCHANGED <<config, apiUse, standalone, vendorGets, devFw, devOrder, firmwares,
                   firmwareCache,
                   deviceHandlers, envFault, prevFw, seenFw>>

\* a faulty variant of NoTarget: no device is taken to be without a target
NoTargetNever(device) == FALSE

\* the test upgradePass makes before anything else: the target is the zero value
NoTarget(device) == device.FirmwareNewestVersion = NoFirmware

\* a device without a target is skipped
upgradePassSkip(d) ==
    /\ pc = "loop"
    /\ d \in remaining
    /\ NoTarget(devices.map[d])
    /\ remaining' = remaining \ {d}
    /\ UNCHANGED <<config, apiUse, standalone, prompted, vendorGets,
                   devFw, devOrder, pc, pass, devices, firmwares, firmwareCache,
                   deviceHandlers, hadSteppingStone, worker, doneCh, envFault, prevFw,
                   seenFw>>

\* the user interrupts a prompt: the loop is left
upgradePassInterrupt(d) ==
    /\ pc = "loop"
    /\ d \in remaining
    /\ ~NoTarget(devices.map[d])
    /\ ~force
    /\ pc' = "wait"
    /\ remaining' = {}
    /\ prompted' = prompted \cup {d}
    /\ UNCHANGED <<config, apiUse, standalone, vendorGets,
                   devFw, devOrder, pass, devices, firmwares, firmwareCache,
                   deviceHandlers, hadSteppingStone, worker, doneCh, envFault,
                   prevFw, seenFw>>

\* the user declines the upgrade of a device
upgradePassDecline(d) ==
    /\ pc = "loop"
    /\ d \in remaining
    /\ ~NoTarget(devices.map[d])
    /\ ~force
    /\ remaining' = remaining \ {d}
    /\ prompted' = prompted \cup {d}
    /\ UNCHANGED <<config, apiUse, standalone, vendorGets,
                   devFw, devOrder, pc, pass, devices, firmwares, firmwareCache,
                   deviceHandlers, hadSteppingStone, worker, doneCh, envFault, prevFw,
                   seenFw>>

\* the channel upgradePass downloads: in force mode the beta channel exactly
\* in beta mode; otherwise the beta channel when the version the user chose
\* (answer: the version picked in the selection of beta mode) is the beta one
IsBeta(fw, answer) ==
    IF force THEN includeBetas
    ELSE LET chosenUpdate == IF includeBetas THEN answer ELSE fw.Version
         IN  chosenUpdate = fw.BetaVersion

\* a faulty variant of UsedSteppingStone: every dispatched device counts
UsedSteppingStoneAny(device) == TRUE

\* whether the pass counts a dispatched device as a stepping-stone upgrade
UsedSteppingStone(device) == NeedsSteppingStone(device).needed

\* the upgrade of a device is confirmed (or forced): download, then dispatch
upgradePassConfirm(d) ==
    /\ pc = "loop"
    /\ d \in remaining
    /\ ~NoTarget(devices.map[d])
    /\ prompted' = IF force THEN prompted ELSE prompted \cup {d}
    /\ \E answer \in {devices.map[d].FirmwareNewestVersion.Version,
                      devices.map[d].FirmwareNewestVersion.BetaVersion},
          serverOk \in BOOLEAN :
         LET fw == devices.map[d].FirmwareNewestVersion
             dl == DownloadFirmware(firmwareCache, fw, IsBeta(fw, answer), serverOk)
         IN  /\ firmwareCache' = dl.cache
             /\ vendorGets' = [vendorGets EXCEPT !.firmware = Counted(@, dl.get)]
             /\ envFault' = (envFault \/ (dl.err /\ ~serverOk))
             /\ IF dl.err
                THEN /\ pc' = "failed"
                     /\ UNCHANGED <<remaining, hadSteppingStone, worker>>
                ELSE /\ pc' = "loop"
                     /\ remaining' = remaining \ {d}
                     /\ hadSteppingStone' =
                            (hadSteppingStone \/ UsedSteppingStone(devices.map[d]))
                     /\ worker' = [worker EXCEPT ![d] =
                            [IdleWorker EXCEPT !.stage = "start", !.file = dl.path]]
    /\ UNCHANGED <<config, apiUse, standalone, devFw, devOrder, pass, devices, firmwares,
                   deviceHandlers, doneCh, prevFw, seenFw>>

\* a faulty variant of WorkersFinished: the pass does not wait
WorkersNotAwaited == TRUE

\* wg.Wait: every goroutine of the pass has returned
WorkersFinished == \A d \in Devs : worker[d].stage \in {"idle", "done"}

\* upgradePass returns after wg.Wait and PromptForUpgrades decides: without a
\* stepping-stone upgrade it stops, otherwise it resets the discovery
upgradePassReturn ==
    /\ \/ pc = "loop" /\ remaining = {}
       \/ pc = "wait"
    /\ WorkersFinished
    /\ IF ~hadSteppingStone
       THEN /\ pc' = "done"
            /\ UNCHANGED <<devices, prevFw, worker, prompted>>
       ELSE IF pass >= MaxPass
       THEN /\ pc' = "capped"
            /\ UNCHANGED <<devices, prevFw, worker, prompted>>
       ELSE /\ pc' = "refresh"
            /\ prompted' = {}
            /\ devices' = ResetDiscovery(devices)
            /\ prevFw' = [d \in Devs |->
                            IF d \in DOMAIN devices.map
                            THEN devices.map[d].FirmwareVersion ELSE V_empty]
            /\ worker' = AllWorkersIdle
    /\ UNCHANGED <<config, apiUse, standalone, vendorGets, devFw, devOrder, pass, firmwares,
                   firmwareCache, deviceHandlers, remaining, hadSteppingStone, doneCh,
                   envFault, seenFw>>

\* ------------------------------------------------------------------------
\* UpgradeDevice, one goroutine per dispatched device (ota_updater.go)
\* ------------------------------------------------------------------------

\* the process, its goroutines and its OTA server live until the command ends
Running == pc \notin {"failed", "done", "capped"}

\* a faulty variant of Store: a key that has a value keeps it
StoreIfAbsent(handlers, key, value) ==
    [k \in DOMAIN handlers \cup {key} |->
        IF k \in DOMAIN handlers THEN handlers[k] ELSE value]

\* deviceHandlers.Store: the value is put under the key, over any earlier one
Store(handlers, key, value) ==
    [k \in DOMAIN handlers \cup {key} |-> IF k = key THEN value ELSE handlers[k]]

\* deviceHandlers.Load with the text of a key
Load(handlers, deviceID) ==
    IF \E k \in DOMAIN handlers : Text(k) = deviceID
    THEN [ok |-> TRUE,
          handler |-> handlers[CHOOSE k \in DOMAIN handlers : Text(k) = deviceID]]
    ELSE [ok |-> FALSE, handler |-> NoHandler]

\* a faulty variant of ServeHTTP: a handler that is there answers every path
ServeHTTPAnyPath(handlers, path) ==
    IF DOMAIN handlers # {}
    THEN [status |-> 200, handler |-> handlers[CHOOSE k \in DOMAIN handlers : TRUE]]
    ELSE [status |-> 404, handler |-> NoHandler]

\* the root handler that Setup registers: the path without its first
\* character is looked up; the handler found answers (status 200 stands for
\* that), and http.NotFound otherwise
ServeHTTP(handlers, path) ==
    LET found == Load(handlers, Tail(path))
    IN  IF found.ok THEN [status |-> 200, handler |-> found.handler]
        ELSE [status |-> 404, handler |-> NoHandler]

\* the path of the request a device sends for an OTA command
RequestPath(url) == <<"/">> \o Text(url.path)

\* the handler UpgradeDevice makes: the device whose goroutine made it (it
\* signals the channel of that goroutine), the file it serves and the pass
HandlerFunc(d, filename, n) == [device |-> d, file |-> filename, pass |-> n]

\* the handler of the device is stored under its id, over any earlier one
UpgradeInstall(d) ==
    /\ Running
    /\ worker[d].stage = "start"
    /\ deviceHandlers' =
           Store(deviceHandlers, devices.map[d].ID, HandlerFunc(d, worker[d].file, pass))
    /\ doneCh' = [doneCh EXCEPT ![d] = FALSE]
    /\ worker' = [worker EXCEPT ![d].stage = "installed"]
    /\ UNCHANGED <<config, apiUse, standalone, prompted, vendorGets,
                   devFw, devOrder, pc, pass, devices, firmwares, firmwareCache,
                   remaining, hadSteppingStone, envFault, prevFw, seenFw>>

\* the OTA trigger GET: the device may or may not receive the command, and the
\* response may or may not come back
UpgradeTrigger(d) ==
    /\ Running
    /\ worker[d].stage = "installed"
    /\ \E delivered \in BOOLEAN, ok \in BOOLEAN :
         LET url == OTAURL(devices.map[d], serverIP, serverPort, devices.map[d].ID)
         IN  /\ ok => delivered
             /\ devOrder' = IF delivered THEN [devOrder EXCEPT ![d] = url] ELSE devOrder
             /\ worker' = [worker EXCEPT ![d].url = url,
                                         ![d].gets = @ + 1,
                                         ![d].stage = IF ok THEN "waiting" ELSE "done",
                                         ![d].ret = IF ok THEN "none" ELSE "error"]
    /\ UNCHANGED <<config, apiUse, standalone, prompted, vendorGets,
                   devFw, pc, pass, devices, firmwares, firmwareCache,
                   deviceHandlers, remaining, hadSteppingStone, doneCh, envFault, prevFw,
                   seenFw>>

\* the select of UpgradeDevice receives from the handler
UpgradeDone(d) ==
    /\ Running
    /\ worker[d].stage = "waiting"
    /\ doneCh[d]
    /\ doneCh' = [doneCh EXCEPT ![d] = FALSE]
    /\ worker' = [worker EXCEPT ![d].stage = "verify"]
    /\ UNCHANGED <<config, apiUse, standalone, prompted, vendorGets,
                   devFw, devOrder, pc, pass, devices, firmwares, firmwareCache,
                   deviceHandlers, remaining, hadSteppingStone, envFault, prevFw, seenFw>>

\* a faulty variant of AfterTimeout: verification is run all the same
AfterTimeoutVerify(w) == [w EXCEPT !.stage = "verify"]

\* what UpgradeDevice does when the 120 seconds have run out: it warns and
\* returns nil
AfterTimeout(w) == [w EXCEPT !.stage = "done", !.ret = "nil"]

\* the select of UpgradeDevice takes the 120 seconds branch
UpgradeTimeout(d) ==
    /\ Running
    /\ worker[d].stage = "waiting"
    /\ ~doneCh[d]
    /\ worker' = [worker EXCEPT ![d] = AfterTimeout(worker[d])]
    /\ UNCHANGED <<config, apiUse, standalone, prompted, vendorGets,
                   devFw, devOrder, pc, pass, devices, firmwares, firmwareCache,
                   deviceHandlers, remaining, hadSteppingStone, doneCh, envFault, prevFw,
                   seenFw>>

\* the waits of verifyUpgrade before each of its polls, in seconds
delays == <<10, 10, 15, 15, 30>>

\* a faulty variant of PollEnds: the polls go on after a match
PollEndsAtLast(currentVersion, expectedVersion, attempt) == attempt = Len(delays)

\* a poll ends verifyUpgrade when the device answers the expected version, or
\* when it is the last one
PollEnds(currentVersion, expectedVersion, attempt) ==
    \/ currentVersion # V_empty /\ currentVersion = expectedVersion
    \/ attempt = Len(delays)

\* verifyUpgrade, one round of its loop: after the wait the device is polled;
\* it answers the firmware it runs, or nothing that can be read (it is
\* unreachable, answers another status or an undecodable body).  The version
\* that is expected is the stable version of the target.
verifyUpgrade(d) ==
    /\ Running
    /\ worker[d].stage = "verify"
    /\ worker[d].polls < Len(delays)
    /\ \E answered \in BOOLEAN :
         LET expectedVersion == devices.map[d].FirmwareNewestVersion.Version
             currentVersion == IF answered THEN devFw[d] ELSE V_empty
             attempt == worker[d].polls + 1
             match == currentVersion # V_empty /\ currentVersion = expectedVersion
             ends == PollEnds(currentVersion, expectedVersion, attempt)
         IN  worker' = [worker EXCEPT
                 ![d].polls = IF ends THEN 0 ELSE attempt,
                 ![d].matched = @ \/ (currentVersion # V_empty
                                          /\ currentVersion = worker[d].file.version),
                 ![d].verdict = IF match THEN "verified"
                                ELSE IF ends THEN "unverified" ELSE @,
                 ![d].stage = IF ends THEN "done" ELSE @,
                 ![d].ret = IF ends THEN "nil" ELSE @]
    /\ UNCHANGED <<config, apiUse, standalone, prompted, vendorGets,
                   devFw, devOrder, pc, pass, devices, firmwares, firmwareCache,
                   deviceHandlers, remaining, hadSteppingStone, doneCh, envFault, prevFw,
                   seenFw>>

\* ------------------------------------------------------------------------
\* The device side: a device that holds an OTA command fetches its firmware
\* ------------------------------------------------------------------------

\* the root handler of Setup looks the path up in deviceHandlers; the handler
\* found serves its file and then signals the channel of the goroutine that
\* installed it; the device flashes what it got, or fails to
DeviceFetch(d) ==
    /\ Running
    /\ devOrder[d] # NoURL
    /\ devOrder' = [devOrder EXCEPT ![d] = NoURL]
    /\ LET response == ServeHTTP(deviceHandlers, RequestPath(devOrder[d]))
       IN  IF response.status = 200
           THEN LET handler == response.handler
                    deviceID == handler.device
                    listening == /\ handler.pass = pass
                                 /\ worker[deviceID].stage \in {"installed", "waiting"}
                IN  /\ \E flashed \in BOOLEAN :
                         devFw' = IF flashed
                                  THEN [devFw EXCEPT ![d] = handler.file.version]
                                  ELSE devFw
                    /\ doneCh' = IF listening THEN [doneCh EXCEPT ![deviceID] = TRUE]
                                 ELSE doneCh
                    /\ worker' = IF listening
                                 THEN [worker EXCEPT ![deviceID].served = TRUE]
                                 ELSE worker
           ELSE UNCHANGED <<devFw, doneCh, worker>>
    /\ UNCHANGED <<config, apiUse, standalone, prompted, vendorGets,
                   pc, pass, devices, firmwares, firmwareCache, deviceHandlers,
                   remaining, hadSteppingStone, envFault, prevFw, seenFw>>

\* ------------------------------------------------------------------------
\* Specification
\* ------------------------------------------------------------------------

Next ==
    \/ SetupDiscover
    \/ SetupTargets
    \/ FilterDevices
    \/ upgradePassBegin
    \/ \E d \in Devs : upgradePassSkip(d)
    \/ \E d \in Devs : upgradePassInterrupt(d)
    \/ \E d \in Devs : upgradePassDecline(d)
    \/ \E d \in Devs : upgradePassConfirm(d)
    \/ upgradePassReturn
    \/ refreshDiscover
    \/ refreshTargets
    \/ \E d \in Devs : UpgradeInstall(d)
    \/ \E d \in Devs : UpgradeTrigger(d)
    \/ \E d \in Devs : UpgradeDone(d)
    \/ \E d \in Devs : UpgradeTimeout(d)
    \/ \E d \in Devs : verifyUpgrade(d)
    \/ \E d \in Devs : DeviceFetch(d)

Spec == Init /\ [][Next]_vars


\* ------------------------------------------------------------------------
\* The catalog client used directly (api.go), as in api_test.go: lookups, and
\* DownloadFirmware called from several goroutines
\* ------------------------------------------------------------------------

\* the models that are looked up: a base model, its alias, an internal name,
\* its API name, and a model nothing is known about
ClientModels == {"2PMG4", "S2PMG4ZB", "1G3", "S1G3", "SHUNKNOWN"}

\* the catalogs the vendor may hold: any of the four entries, or none
ClientCatalogs ==
    { [m \in S |-> CatalogEntry(m, V_1_5_0, "http://vendor/firmware/stable.zip",
                                V_1_6_0_beta, "http://vendor/firmware/beta.zip")] :
        S \in SUBSET {"2PMG4", "S2PMG4ZB", "1G3", "S1G3"} }

\* the firmware the direct downloads ask for
ClientFirmware ==
    CatalogEntry("Plus1", V_1_5_0, "http://vendor/firmware/Plus1_stable.zip",
                 V_1_6_0_beta, "http://vendor/firmware/Plus1_beta.zip")

InitAPI ==
    /\ force = FALSE
    /\ includeBetas = FALSE
    /\ modelFilter = {}
    /\ excludePatterns = {}
    /\ vendor \in ClientCatalogs
    /\ apiUp = TRUE
    /\ hw = [d \in Devs |-> [Model |-> Profiles[1].Model,
                             Generation |-> Profiles[1].Generation]]
    /\ devFw = [d \in Devs |-> Profiles[1].fw]
    /\ devOrder = [d \in Devs |-> NoURL]
    /\ pc = "direct"
    /\ pass = 0
    /\ devices = NilDevices
    /\ firmwares = EmptyMap
    /\ firmwareCache = NoDownloads
    /\ deviceHandlers = EmptyMap
    /\ remaining = {}
    /\ hadSteppingStone = FALSE
    /\ worker = [d \in Devs |-> IdleWorker]
    /\ doneCh = [d \in Devs |-> FALSE]
    /\ envFault = FALSE
    /\ prevFw = [d \in Devs |-> V_empty]
    /\ seenFw = [d \in Devs |-> V_empty]
    /\ prompted = {}
    /\ vendorGets = [catalog |-> 0, firmware |-> [x \in {} |-> 0]]
    /\ calls = [c \in Callers |-> IdleCall]
    /\ files = NoFiles
    /\ lookup = NoLookup
    /\ StandaloneIdle

\* the variables of the orchestrator, which is not running
orchestrator ==
    <<config, devFw, devOrder, pc, pass, devices, deviceHandlers, remaining,
      hadSteppingStone, worker, doneCh, envFault, prevFw, seenFw, prompted>>

\* GetLatestFirmwareAvailable(m) called on the client: FetchVersions, then the
\* lookup in the map it returned
ClientLookup(m) ==
    /\ LET f == FetchVersions(firmwares, vendor, apiUp)
           r == GetLatestFirmwareAvailable(f.firmwares, m)
       IN  /\ f.fetched => vendorGets.catalog < MaxFetches
           /\ firmwares' = f.client
           /\ vendorGets' = [vendorGets EXCEPT
                                !.catalog = @ + (IF f.fetched THEN 1 ELSE 0)]
           /\ lookup' = IF f.err THEN [model |-> m, fw |-> NoFirmware, err |-> TRUE]
                         ELSE [model |-> m, fw |-> r.fw, err |-> r.err]
    /\ UNCHANGED <<orchestrator, standalone, firmwareCache, calls, files>>

CallID(call) == IF call.beta THEN BetaID(call.fw) ELSE StableID(call.fw)

CallURL(call) == IF call.beta THEN call.fw.BetaURL ELSE call.fw.URL

CallPath(call) ==
    [model |-> call.fw.Model,
     version |-> IF call.beta THEN call.fw.BetaVersion ELSE call.fw.Version]

\* DownloadFirmware, first step: the id is looked up in the download cache and
\* the path found there is returned
CallLoad(c, remoteFirmware, betaVersion) ==
    /\ calls[c].stage = "idle"
    /\ LET call == [calls[c] EXCEPT !.fw = remoteFirmware, !.beta = betaVersion]
       IN  calls' = [calls EXCEPT ![c] =
               IF CallID(call) \in DOMAIN firmwareCache
               THEN [call EXCEPT !.stage = "returned",
                                 !.path = firmwareCache[CallID(call)]]
               ELSE [call EXCEPT !.stage = "get"]]
    /\ UNCHANGED <<orchestrator, standalone, firmwares, firmwareCache, vendorGets, files,
                   lookup>>

\* DownloadFirmware, second step: the GET; an empty URL, a failed request or a
\* status other than 200 end the call with an error
CallGet(c) ==
    /\ calls[c].stage = "get"
    /\ IF CallURL(calls[c]) = ""
       THEN /\ calls' = [calls EXCEPT ![c].stage = "returned", ![c].err = TRUE]
            /\ UNCHANGED vendorGets
       ELSE /\ vendorGets' = [vendorGets EXCEPT
                                 !.firmware = Counted(@, {CallID(calls[c])})]
            /\ \E serverOk \in BOOLEAN :
                 calls' = [calls EXCEPT ![c] =
                     IF serverOk THEN [@ EXCEPT !.stage = "create", !.fetched = TRUE]
                     ELSE [@ EXCEPT !.stage = "returned", !.err = TRUE]]
    /\ UNCHANGED <<orchestrator, standalone, firmwares, firmwareCache, files, lookup>>

\* DownloadFirmware, third step: os.Create makes the file, or empties the one
\* that is there
CallCreate(c) ==
    /\ calls[c].stage = "create"
    /\ files' = [f \in DOMAIN files \cup {CallPath(calls[c])} |->
                    IF f = CallPath(calls[c]) THEN "partial" ELSE files[f]]
    /\ calls' = [calls EXCEPT ![c].stage = "copy"]
    /\ UNCHANGED <<orchestrator, standalone, firmwares, firmwareCache, vendorGets, lookup>>

\* DownloadFirmware, fourth step: io.Copy writes the body to the file
CallCopy(c) ==
    /\ calls[c].stage = "copy"
    /\ files' = [files EXCEPT ![CallPath(calls[c])] = "complete"]
    /\ calls' = [calls EXCEPT ![c].stage = "store"]
    /\ UNCHANGED <<orchestrator, standalone, firmwares, firmwareCache, vendorGets, lookup>>

\* DownloadFirmware, last step: the path is stored under the id and returned
CallStore(c) ==
    /\ calls[c].stage = "store"
    /\ firmwareCache' = [k \in DOMAIN firmwareCache \cup {CallID(calls[c])} |->
                            IF k = CallID(calls[c]) THEN CallPath(calls[c])
                            ELSE firmwareCache[k]]
    /\ calls' = [calls EXCEPT ![c].stage = "returned", ![c].path = CallPath(calls[c])]
    /\ UNCHANGED <<orchestrator, standalone, firmwares, vendorGets, files, lookup>>

NextAPI ==
    \/ \E m \in ClientModels : ClientLookup(m)
    \/ \E c \in Callers, betaVersion \in BOOLEAN :
          CallLoad(c, ClientFirmware, betaVersion)
    \/ \E c \in Callers : CallGet(c)
    \/ \E c \in Callers : CallCreate(c)
    \/ \E c \in Callers : CallCopy(c)
    \/ \E c \in Callers : CallStore(c)

SpecAPI == InitAPI /\ [][NextAPI]_vars


\* ------------------------------------------------------------------------
\* The service called method by method (ota_updater.go), as in main_test.go
\* and as the list command does: Setup, DiscoverDevices, ResetDiscovery,
\* FilterDevices and ListDeviceStatus in any order, while the firmware of the
\* devices on the network may change
\* ------------------------------------------------------------------------

\* discoveries that are explored when the service is called method by method
MaxScans == 2

\* a faulty variant of DeviceStatus: the stepping-stone mark does not depend
\* on the device having a target
DeviceStatusMarkAlways(device) ==
    [Name |-> String(device), ID |-> device.ID, Model |-> device.Model,
     CurrentVersion |-> device.FirmwareVersion,
     TargetVersion |-> IF device.FirmwareNewestVersion = NoFirmware THEN V_empty
                       ELSE device.FirmwareNewestVersion.Version,
     UpToDate |-> device.FirmwareNewestVersion = NoFirmware,
     SteppingStone |-> NeedsSteppingStone(device).needed]

\* the DeviceStatus record ListDeviceStatus makes for a device
DeviceStatus(device) ==
    [Name |-> String(device), ID |-> device.ID, Model |-> device.Model,
     CurrentVersion |-> device.FirmwareVersion,
     TargetVersion |-> IF device.FirmwareNewestVersion = NoFirmware THEN V_empty
                       ELSE device.FirmwareNewestVersion.Version,
     UpToDate |-> device.FirmwareNewestVersion = NoFirmware,
     SteppingStone |-> /\ device.FirmwareNewestVersion # NoFirmware
                       /\ NeedsSteppingStone(device).needed]

\* ListDeviceStatus: the records of the devices of the index, appended in the
\* order the map is ranged over
RECURSIVE StatusesOf(_, _)
StatusesOf(index, ids) ==
    IF ids = {} THEN <<>>
    ELSE LET d == CHOOSE x \in ids : TRUE
         IN  <<DeviceStatus(index[d])>> \o StatusesOf(index, ids \ {d})

ListDeviceStatus(index) == StatusesOf(index, DOMAIN index)

InitService ==
    /\ force = FALSE
    /\ includeBetas \in BOOLEAN
    /\ modelFilter \in {{}, {"Pro1"}}
    /\ excludePatterns \in ExcludeInputs
    /\ excludePatterns # {} => modelFilter = {}
    /\ vendor \in Catalogs
    /\ apiUp = TRUE
    /\ \E p \in [DevIndex -> 1..Len(Profiles)] :
         /\ \A i, j \in DevIndex : i < j => p[i] <= p[j]
         /\ hw = [d \in Devs |-> [Model |-> Profiles[p[IndexOf(d)]].Model,
                                  Generation |-> Profiles[p[IndexOf(d)]].Generation]]
         /\ devFw = [d \in Devs |-> Profiles[p[IndexOf(d)]].fw]
    /\ devOrder = [d \in Devs |-> NoURL]
    /\ pc = "service"
    /\ pass = 0
    /\ devices = NilDevices
    /\ firmwares = EmptyMap
    /\ firmwareCache = NoDownloads
    /\ deviceHandlers = EmptyMap
    /\ remaining = {}
    /\ hadSteppingStone = FALSE
    /\ worker = [d \in Devs |-> IdleWorker]
    /\ doneCh = [d \in Devs |-> FALSE]
    /\ envFault = FALSE
    /\ prevFw = [d \in Devs |-> V_empty]
    /\ seenFw = [d \in Devs |-> V_empty]
    /\ prompted = {}
    /\ vendorGets = [catalog |-> 0, firmware |-> [x \in {} |-> 0]]
    /\ calls = [c \in Callers |-> IdleCall]
    /\ files = NoFiles
    /\ lookup = NoLookup
    /\ StandaloneIdle

\* what the service, called method by method, leaves alone
untouched ==
    <<config, apiUse, devOrder, pc, pass, firmwareCache, deviceHandlers, remaining,
      hadSteppingStone, worker, doneCh, envFault, prevFw, seenFw, prompted,
      vendorGets, installs, request, lan, browser, calc, pool>>

\* the results of the call before are gone
NoResults == returned' = NoReturn /\ statuses' = <<>>

\* DiscoverDevices called on the service: the index it holds, or a discovery,
\* which may fail and then leaves the index nil
SvcDiscoverDevices ==
    /\ devices.set \/ scans < MaxScans
    /\ \/ /\ devices' = DiscoverDevices
          /\ scans' = scans + (IF devices.set THEN 0 ELSE 1)
          /\ returned' = [index |-> devices', err |-> FALSE]
       \/ /\ ~devices.set
          /\ scans' = scans + 1
          /\ returned' = [index |-> NilDevices, err |-> TRUE]
          /\ UNCHANGED devices
    /\ statuses' = <<>>
    /\ UNCHANGED <<untouched, devFw, firmwares>>

\* ResetDiscovery called on the service
SvcResetDiscovery ==
    /\ devices' = ResetDiscovery(devices)
    /\ NoResults
    /\ UNCHANGED <<untouched, devFw, firmwares, scans>>

\* Setup called on the service: DiscoverDevices, then the target of every
\* device of the index; a failed discovery ends it
SvcSetup ==
    /\ devices.set \/ scans < MaxScans
    /\ \/ /\ scans' = scans + (IF devices.set THEN 0 ELSE 1)
          /\ LET index == DiscoverDevices
                 c == CatalogAfter(firmwares, vendor, apiUp,
                                   Cardinality(DOMAIN index.map))
             IN  /\ firmwares' = c.client
                 /\ devices' = [index EXCEPT
                                  !.map = ResolveTargets(index.map, c.client)]
       \/ /\ ~devices.set
          /\ scans' = scans + 1
          /\ UNCHANGED <<devices, firmwares>>
    /\ NoResults
    /\ UNCHANGED <<untouched, devFw>>

\* FilterDevices called on the service
SvcFilterDevices ==
    /\ devices' = [devices EXCEPT !.map = [d \in Kept(devices.map) |-> devices.map[d]]]
    /\ NoResults
    /\ UNCHANGED <<untouched, devFw, firmwares, scans>>

\* ListDeviceStatus called on the service
SvcListDeviceStatus ==
    /\ statuses' = ListDeviceStatus(devices.map)
    /\ returned' = NoReturn
    /\ UNCHANGED <<untouched, devFw, devices, firmwares, scans>>

\* a device on the network is brought to 1.3.3 by other means
DeviceUpdated(d) ==
    /\ devFw[d] \in {V_1_0_0, V_1_2_0_b1}
    /\ devFw' = [devFw EXCEPT ![d] = V_1_3_3]
    /\ UNCHANGED <<untouched, devices, firmwares, statuses, scans, returned>>

NextService ==
    \/ SvcDiscoverDevices
    \/ SvcResetDiscovery
    \/ SvcSetup
    \/ SvcFilterDevices
    \/ SvcListDeviceStatus
    \/ \E d \in Devs : DeviceUpdated(d)

SpecService == InitService /\ [][NextService]_vars

\* ------------------------------------------------------------------------
\* The OTA server on its own (ota_updater.go): handlers are installed pass
\* after pass, and requests arrive for any path at any time
\* ------------------------------------------------------------------------

\* the paths that are requested: the path of each device id, the root, a
\* name that is no device id, a device id with a slash after it, and a path
\* whose last segment is a device id
RequestPaths ==
    {<<"/">> \o Text(d) : d \in Devs}
        \cup { <<"/">>,
               <<"/">> \o Text("den"),
               <<"/">> \o Text("shelly-aa") \o <<"/">>,
               <<"/">> \o Text("den") \o <<"/">> \o Text("shelly-bb") }

\* the files the handlers are made for
ServedFiles ==
    { [model |-> "Plus1", version |-> V_1_3_3],
      [model |-> "Plus1", version |-> V_1_5_0],
      [model |-> "Pro1", version |-> V_1_5_0] }

InitServer ==
    /\ InitService
    /\ force = FALSE
    /\ includeBetas = FALSE
    /\ modelFilter = {}
    /\ excludePatterns = {}
    /\ vendor = EmptyMap
    /\ devFw = [d \in Devs |-> Profiles[1].fw]
    /\ hw = [d \in Devs |-> [Model |-> Profiles[1].Model,
                             Generation |-> Profiles[1].Generation]]

\* what the OTA server on its own leaves alone
unserved ==
    <<config, apiUse, devFw, devOrder, pc, devices, firmwares, firmwareCache,
      remaining, hadSteppingStone, worker, doneCh, envFault, prevFw, seenFw,
      prompted, vendorGets, scans, returned, statuses, lan, browser, calc, pool>>

\* a pass begins
SrvNextPass ==
    /\ pass < MaxPass
    /\ pass' = pass + 1
    /\ UNCHANGED <<unserved, deviceHandlers, installs, request>>

\* UpgradeDevice installs the handler of a device, once in a pass
SrvUpgradeDevice(d, filename) ==
    /\ pass >= 1
    /\ \A i \in 1..Len(installs[d]) : installs[d][i].pass < pass
    /\ deviceHandlers' = Store(deviceHandlers, d, HandlerFunc(d, filename, pass))
    /\ installs' = [installs EXCEPT ![d] = Append(@, HandlerFunc(d, filename, pass))]
    /\ UNCHANGED <<unserved, pass, request>>

\* a request arrives and is answered
SrvRequest(path) ==
    /\ LET response == ServeHTTP(deviceHandlers, path)
       IN  request' = [path |-> path, status |-> response.status,
                       handler |-> response.handler]
    /\ UNCHANGED <<unserved, pass, deviceHandlers, installs>>

NextServer ==
    \/ SrvNextPass
    \/ \E d \in Devs, filename \in ServedFiles : SrvUpgradeDevice(d, filename)
    \/ \E path \in RequestPaths : SrvRequest(path)

SpecServer == InitServer /\ [][NextServer]_vars

\* ------------------------------------------------------------------------
\* Discovery on its own (Browser; AllLocalSubnets and ExpandCIDR of util.go)
\* ------------------------------------------------------------------------

\* an IPv4 address is the tuple of its four bytes; the nil IP is <<>>
NilIP == <<>>

\* net.ParseIP of dotted-quad text: four decimal parts from 0 to 255, without
\* leading zeros
ParseIP(s) ==
    LET parts == SplitDots(s)
    IN  IF /\ Len(parts) = 4
           /\ \A i \in 1..4 :
                /\ AllDigits(parts[i])
                /\ Len(parts[i]) <= 3
                /\ Len(parts[i]) > 1 => parts[i][1] # "0"
                /\ DecValue(parts[i]) <= 255
        THEN [i \in 1..4 |-> DecValue(parts[i])]
        ELSE NilIP

\* IP.String of an IPv4 address
IPString(ip) ==
    Itoa(ip[1]) \o <<".">> \o Itoa(ip[2]) \o <<".">> \o Itoa(ip[3]) \o <<".">>
        \o Itoa(ip[4])

\* strings.HasPrefix
HasPrefix(s, prefix) == Len(s) >= Len(prefix) /\ SubSeq(s, 1, Len(prefix)) = prefix

\* the index of the last c in s, 0 when there is none
RECURSIVE LastIndex(_, _)
LastIndex(s, c) ==
    IF s = <<>> THEN 0
    ELSE IF s[Len(s)] = c THEN Len(s)
    ELSE LastIndex(SubSeq(s, 1, Len(s) - 1), c)

\* net.SplitHostPort for text without brackets: the port is what follows the
\* last colon; no colon ("missing port") and a colon in the host part ("too
\* many colons") are errors
SplitHostPort(hostport) ==
    LET i == LastIndex(hostport, ":")
        host == SubSeq(hostport, 1, i - 1)
    IN  IF i = 0 \/ IndexAny(host, {":"}) # 0
        THEN [err |-> TRUE, host |-> <<>>, port |-> <<>>]
        ELSE [err |-> FALSE, host |-> host,
              port |-> SubSeq(hostport, i + 1, Len(hostport))]

\* the power of two
RECURSIVE Pow2(_)
Pow2(n) == IF n = 0 THEN 1 ELSE 2 * Pow2(n - 1)

\* the bits of byte i that a mask of the given length leaves to the hosts
HostBits(bits, i) ==
    LET ones == bits - 8 * (i - 1)
    IN  IF ones >= 8 THEN 0 ELSE IF ones <= 0 THEN 8 ELSE 8 - ones

\* net.ParseCIDR of "a.b.c.d/n": the network of the address, with the host
\* bits cleared, and the length of its mask
ParseCIDR(cidr) ==
    LET i == IndexAny(cidr, {"/"})
        addr == ParseIP(SubSeq(cidr, 1, i - 1))
        n == SubSeq(cidr, i + 1, Len(cidr))
    IN  IF i = 0 \/ addr = NilIP \/ ~AllDigits(n) \/ Len(n) > 2 \/ DecValue(n) > 32
        THEN [err |-> TRUE, IP |-> NilIP, bits |-> 0]
        ELSE [err |-> FALSE,
              IP |-> [k \in 1..4 |->
                         addr[k] - (addr[k] % Pow2(HostBits(DecValue(n), k)))],
              bits |-> DecValue(n)]

\* IPNet.Contains
Contains(ipNet, ip) ==
    \A k \in 1..4 : ip[k] - (ip[k] % Pow2(HostBits(ipNet.bits, k))) = ipNet.IP[k]

\* incrementIP: one is added to the last byte, with the carry going left
RECURSIVE incrementFrom(_, _)
incrementFrom(ip, j) ==
    IF j = 0 THEN ip
    ELSE LET next == [ip EXCEPT ![j] = (ip[j] + 1) % 256]
         IN  IF next[j] > 0 THEN next ELSE incrementFrom(next, j - 1)

incrementIP(ip) == incrementFrom(ip, Len(ip))

\* the loop of ExpandCIDR
RECURSIVE ExpandFrom(_, _, _)
ExpandFrom(candidate, ipNet, broadcast) ==
    IF ~Contains(ipNet, candidate) THEN <<>>
    ELSE (IF candidate = ipNet.IP \/ candidate = broadcast THEN <<>>
          ELSE <<candidate>>)
             \o ExpandFrom(incrementIP(candidate), ipNet, broadcast)

\* ExpandCIDR: the addresses of the range without the network address and the
\* broadcast address
ExpandCIDR(cidr) ==
    LET parsed == ParseCIDR(cidr)
        broadcast == [k \in 1..4 |->
                         parsed.IP[k] + Pow2(HostBits(parsed.bits, k)) - 1]
    IN  IF parsed.err THEN [err |-> TRUE, ips |-> <<>>]
        ELSE [err |-> FALSE, ips |-> ExpandFrom(parsed.IP, parsed, broadcast)]

\* isPrivateIP: 10.0.0.0/8, 172.16.0.0/12 and 192.168.0.0/16
isPrivateIP(ip) ==
    \/ ip[1] = 10
    \/ ip[1] = 172 /\ ip[2] \in 16..31
    \/ ip[1] = 192 /\ ip[2] = 168

\* the addresses of the interfaces that are up and are not the loopback
RECURSIVE AddrsOf(_)
AddrsOf(ifaces) ==
    IF ifaces = <<>> THEN <<>>
    ELSE (IF Head(ifaces).up /\ ~Head(ifaces).loopback THEN Head(ifaces).addrs
          ELSE <<>>) \o AddrsOf(Tail(ifaces))

\* the loop of AllLocalSubnets over the addresses: an address that is not a
\* private IPv4 address is passed over, and so is one whose first three bytes
\* have been seen; the others give the 254 hosts of their /24
RECURSIVE HostsOf(_, _)
HostsOf(addrs, seen) ==
    IF addrs = <<>> THEN <<>>
    ELSE LET ip == Head(addrs)
             prefix == Itoa(ip[1]) \o <<".">> \o Itoa(ip[2]) \o <<".">> \o Itoa(ip[3])
         IN  IF ip = NilIP \/ ~isPrivateIP(ip) THEN HostsOf(Tail(addrs), seen)
             ELSE IF prefix \in seen THEN HostsOf(Tail(addrs), seen)
             ELSE [i \in 1..254 |-> [ip EXCEPT ![4] = i]]
                      \o HostsOf(Tail(addrs), seen \cup {prefix})

AllLocalSubnets(ifaces) == HostsOf(AddrsOf(ifaces), {})

\* the announcement headers
Gen1AnnouncementHeader == Text("id=shelly")

Gen2AnnouncementHeader == Text("gen=2")

Gen3AnnouncementHeader == Text("gen=3")

Gen4AnnouncementHeader == Text("gen=4")

\* the addresses that occur: three devices, the machine itself, and an
\* address no device has
IP_a == <<10, 0, 0, 1>>

IP_b == <<10, 0, 0, 5>>

IP_c == <<10, 0, 2, 2>>

IP_self == <<10, 0, 0, 7>>

\* what a device answers: whether its /shelly body is JSON and the gen field
\* of it (0 when there is none), whether its settings are at /settings (Gen1)
\* or at /rpc/Shelly.GetDeviceInfo, the status of the settings answer, whether
\* the settings body is JSON, the fields of it ("" when a field is not
\* there), and the other ports of the address at which a device answers in
\* the same way, with the id of each
Answer(gen, rpc, status, id, model) ==
    [shelly |-> TRUE, gen |-> gen, rpc |-> rpc, status |-> status, json |-> TRUE,
     id |-> id, name |-> "", model |-> model, fw |-> V_1_0_0, also |-> {}]

\* the networks that are discovered: which addresses have a device, and what
\* each one answers.  Besides devices that answer as their generation does
\* there are one that reports no generation, one that reports a generation
\* that does not exist, one whose settings have no model, one that asks for
\* a password, and one whose /shelly body is not JSON; and an address with a
\* device at port 80 and another one at port 8080.
Networks ==
    { [ip \in {} |-> Answer(0, FALSE, 0, "", "")],
      [ip \in {IP_a, IP_b} |->
          IF ip = IP_a THEN Answer(2, TRUE, 200, "shelly-aa", "Plus1")
          ELSE Answer(0, FALSE, 200, "shelly-bb", "SHSW-25")],
      [ip \in {IP_a, IP_c} |->
          IF ip = IP_a THEN Answer(3, TRUE, 200, "shelly-aa", "Plus1")
          ELSE Answer(2, TRUE, 200, "shelly-bb", "Pro1")],
      [ip \in {IP_a, IP_b} |->
          IF ip = IP_a THEN Answer(7, TRUE, 200, "shelly-aa", "Plus1")
          ELSE Answer(-1, TRUE, 200, "shelly-bb", "Pro1")],
      [ip \in {IP_a, IP_b} |->
          IF ip = IP_a THEN Answer(2, TRUE, 200, "shelly-aa", "")
          ELSE Answer(2, TRUE, 401, "shelly-bb", "Pro1")],
      [ip \in {IP_a, IP_b} |->
          IF ip = IP_a THEN [Answer(2, TRUE, 200, "shelly-aa", "Plus1")
                                EXCEPT !.shelly = FALSE]
          ELSE [Answer(2, TRUE, 200, "shelly-bb", "Pro1") EXCEPT !.json = FALSE]],
      [ip \in {IP_a} |->
          [Answer(2, TRUE, 200, "shelly-aa", "Plus1")
              EXCEPT !.also = {[port |-> 8080, id |-> "shelly-bb"]}]] }

\* the interfaces of the machine: none, one in the /24 of the first two
\* devices, and that one together with a second address in the same /24, a
\* public address, an IPv6 address, a loopback and an interface that is down
Interfaces ==
    { <<>>,
      <<[up |-> TRUE, loopback |-> FALSE, addrs |-> <<IP_self>>]>>,
      <<[up |-> TRUE, loopback |-> TRUE, addrs |-> <<<<10, 0, 2, 9>>>>],
        [up |-> TRUE, loopback |-> FALSE,
         addrs |-> <<IP_self, NilIP, <<8, 8, 8, 8>>, <<10, 0, 0, 9>>>>],
        [up |-> FALSE, loopback |-> FALSE, addrs |-> <<<<10, 0, 2, 9>>>>]>> }

\* the --subnet lists: none, a range inside the local /24, a range given
\* twice (by two of its addresses) next to one that cannot be parsed, and two
\* ranges one of which contains the other
Subnets ==
    { <<>>,
      <<Text("10.0.0.0/30")>>,
      <<Text("10.0.2.0/30"), Text("10.0.2/30"), Text("10.0.2.1/30")>>,
      <<Text("10.0.2.0/29"), Text("10.0.2.0/31"), Text("10.0.2.2/32"), Text("10.0.2.0/33")>> }

\* an mDNS entry
ServiceEntry(hostName, port, addrs, text) ==
    [HostName |-> hostName, Port |-> port, AddrIPv4 |-> addrs, Text |-> text]

\* the mDNS announcements that arrive: none; those of the first two devices,
\* the first one twice; an entry without an address, one of another kind of
\* device, and one of a Gen3 device that has the header after another text
Announcements ==
    { <<>>,
      <<ServiceEntry(Text("shelly-aa.local."), 80, <<IP_a>>, <<Gen2AnnouncementHeader>>),
        ServiceEntry(Text("shelly-bb.local."), 80, <<IP_b>>,
                     <<Text("id=shelly-bb")>>),
        ServiceEntry(Text("shelly-aa.local."), 80, <<IP_a>>, <<Gen2AnnouncementHeader>>)>>,
      <<ServiceEntry(Text("shelly-bb.local."), 80, <<>>, <<Gen2AnnouncementHeader>>),
        ServiceEntry(Text("printer.local."), 80, <<IP_b>>, <<Text("ty=printer")>>),
        ServiceEntry(Text("shelly-aa.local."), 80, <<IP_a, IP_self>>,
                     <<Text("app=Plus1"), Gen3AnnouncementHeader>>)>> }

\* an entry of the host list, with what it is: whether it has the form of an
\* address or of an address and a port, the address it names and the port
Host(text, wellFormed, ip) ==
    [text |-> text, wellFormed |-> wellFormed, ip |-> ip, port |-> 80]

HostPort(text, ip, port) == [Host(text, TRUE, ip) EXCEPT !.port = port]

\* the host lists that are given: none (discovery by mDNS); two addresses,
\* one with its port; entries with a port that is no number, with two
\* colons, with an empty port and with a name that does not resolve, between
\* well-formed ones; an address given twice; and an address given with two
\* ports
HostLists ==
    { <<>>,
      <<Host(Text("10.0.0.1"), TRUE, IP_a), Host(Text("10.0.0.5:80"), TRUE, IP_b)>>,
      <<Host(Text("10.0.0.1:abc"), FALSE, IP_a), Host(Text("10.0.0.5"), TRUE, IP_b)>>,
      <<Host(Text("10.0.0.1::80"), FALSE, IP_a), Host(Text("*"), FALSE, NilIP),
        Host(Text("10.0.0.5:80"), TRUE, IP_b), Host(Text("10.0.0.1:"), FALSE, IP_a)>>,
      <<Host(Text("den.local"), FALSE, NilIP), Host(Text("10.0.0.1"), TRUE, IP_a),
        Host(Text("10.0.0.256"), FALSE, NilIP), Host(Text("10.0.0.1:80"), TRUE, IP_a)>>,
      <<HostPort(Text("10.0.0.1:80"), IP_a, 80),
        HostPort(Text("10.0.0.1:8080"), IP_a, 8080)>> }

\* the .netrc files: none; one with an entry for the first device; and one
\* with that entry and an entry without login and password for the third
Netrcs ==
    { NoNetrc,
      [machine \in {Text("10.0.0.1")} |->
          [login |-> Text("admin"), password |-> Text("p@ss w")]],
      [machine \in {Text("10.0.0.1"), Text("10.0.2.2")} |->
          IF machine = Text("10.0.0.1")
          THEN [login |-> Text("admin"), password |-> Text("p@ss w")]
          ELSE [login |-> <<>>, password |-> <<>>]] }

\* the global credentials of the Browser: none, a username alone, both
Globals ==
    { NoGlobal,
      [username |-> Text("root"), password |-> <<>>],
      [username |-> Text("root"), password |-> Text("pw")] }

\* the names the resolver knows: net.LookupIP is called with the host and its
\* port in one text, which is the name of no host
LookupIP(host) ==
    IF host = Text("den.local") THEN [err |-> FALSE, ips |-> <<IP_b>>]
    ELSE [err |-> TRUE, ips |-> <<>>]

\* a device answers at the port of the address: the devices listen on port
\* 80, and on the other ports their address has
Listens(network, ip, port) ==
    /\ ip \in DOMAIN network
    /\ port = 80 \/ \E other \in network[ip].also : other.port = port

\* GET http://host/shelly for a host given as "address:port"
GetShelly(network, host) ==
    LET split == SplitHostPort(host)
        ip == ParseIP(split.host)
    IN  IF /\ ~split.err
           /\ AtoiOk(split.port)
           /\ Listens(network, ip, Atoi(split.port))
           /\ network[ip].shelly
        THEN [err |-> FALSE, Generation |-> network[ip].gen]
        ELSE [err |-> TRUE, Generation |-> 0]

\* what the loop over the hosts makes of one entry: nothing, when the entry
\* is passed over, and otherwise the service entry that is sent on
ParseHost(network, text) ==
    LET host == IF IndexAny(text, {":"}) = 0 THEN text \o Text(":80") ELSE text
        split == SplitHostPort(host)
        parsedIP == ParseIP(split.host)
        resolved == IF parsedIP # NilIP THEN [err |-> FALSE, ips |-> <<parsedIP>>]
                    ELSE LookupIP(host)
        decoded == GetShelly(network, host)
        header == CASE decoded.Generation = 4 -> Gen4AnnouncementHeader
                    [] decoded.Generation = 3 -> Gen3AnnouncementHeader
                    [] decoded.Generation = 2 -> Gen2AnnouncementHeader
                    [] OTHER -> Gen1AnnouncementHeader \o <<"-">> \o host
    IN  IF split.err \/ ~AtoiOk(split.port) \/ resolved.err \/ decoded.err
        THEN [skip |-> TRUE, entry |-> ServiceEntry(<<>>, 0, <<>>, <<>>)]
        ELSE [skip |-> FALSE,
              entry |-> ServiceEntry(host, Atoi(split.port), resolved.ips, <<header>>)]

\* the generation findShellies reads from a text of an entry, 0 when the
\* text is no announcement header
HeaderGeneration(value) ==
    IF value = Gen2AnnouncementHeader THEN 2
    ELSE IF value = Gen3AnnouncementHeader THEN 3
    ELSE IF value = Gen4AnnouncementHeader THEN 4
    ELSE IF HasPrefix(value, Gen1AnnouncementHeader) THEN 1
    ELSE 0

\* findShellies, for one entry: an entry without an address, one whose
\* address has been seen and one without an announcement header give
\* nothing; the others give an announcement with the generation of the first
\* header among the texts
findShellies(b, entry) ==
    LET headers == SelectSeq(entry.Text, LAMBDA value : HeaderGeneration(value) # 0)
    IN  IF Len(entry.AddrIPv4) = 0 THEN b
        ELSE IF IPString(entry.AddrIPv4[1]) \in b.seen THEN b
        ELSE IF headers = <<>> THEN b
        ELSE [b EXCEPT
                 !.seen = @ \cup {IPString(entry.AddrIPv4[1])},
                 !.found = @ \cup {[IP |-> entry.AddrIPv4[1],
                                    HostName |-> entry.HostName,
                                    Port |-> entry.Port,
                                    Generation |-> HeaderGeneration(headers[1])]}]

\* url.QueryEscape of one of the characters that occur
EscapeChar(c) ==
    CASE c = " " -> <<"+">>
      [] c = "@" -> <<"%", "4", "0">>
      [] c = ":" -> <<"%", "3", "A">>
      [] c = "/" -> <<"%", "2", "F">>
      [] OTHER -> <<c>>

\* url.QueryEscape
RECURSIVE QueryEscape(_)
QueryEscape(s) ==
    IF s = <<>> THEN <<>> ELSE EscapeChar(Head(s)) \o QueryEscape(Tail(s))

\* a faulty variant of scanCredentials: the global credentials come first
scanCredentialsGlobalFirst(l, host) ==
    IF l.global.username # <<>> \/ l.global.password # <<>>
    THEN [username |-> l.global.username,
          password |-> QueryEscape(l.global.password)]
    ELSE IF host \in DOMAIN l.netrc
    THEN [username |-> l.netrc[host].login,
          password |-> QueryEscape(l.netrc[host].password)]
    ELSE [username |-> <<>>, password |-> <<>>]

\* the credentials the goroutine of scanSubnetForDevices uses for a host
scanCredentials(l, host) ==
    IF host \in DOMAIN l.netrc
    THEN [username |-> l.netrc[host].login,
          password |-> QueryEscape(l.netrc[host].password)]
    ELSE IF l.global.username # <<>> \/ l.global.password # <<>>
    THEN [username |-> l.global.username,
          password |-> QueryEscape(l.global.password)]
    ELSE [username |-> <<>>, password |-> <<>>]

\* the credentials the goroutine of fetchSettings uses for an announcement
fetchCredentials(l, deviceAnnouncement) ==
    IF IPString(deviceAnnouncement.IP) \in DOMAIN l.netrc
    THEN [username |-> l.netrc[IPString(deviceAnnouncement.IP)].login,
          password |-> QueryEscape(l.netrc[IPString(deviceAnnouncement.IP)].password)]
    ELSE IF l.global.username # <<>> \/ l.global.password # <<>>
    THEN [username |-> l.global.username,
          password |-> QueryEscape(l.global.password)]
    ELSE [username |-> <<>>, password |-> <<>>]

\* the settings GET and what is made of its answer, for an announcement: the
\* URL is /settings for generation 1 and /rpc/Shelly.GetDeviceInfo otherwise;
\* a device answers 404 where its settings are not
FetchDevice(network, da, credentials) ==
    LET asked == Listens(network, da.IP, da.Port)
        answer == network[da.IP]
        status == IF answer.rpc = (da.Generation # 1) THEN answer.status ELSE 404
        id == IF da.Port = 80 THEN answer.id
              ELSE (CHOOSE other \in answer.also : other.port = da.Port).id
    IN  IF ~asked THEN [err |-> TRUE, device |-> <<>>]
        ELSE IF status # 200 \/ ~answer.json THEN [err |-> TRUE, device |-> <<>>]
        ELSE [err |-> FALSE,
              device |-> [ID |-> id, Name |-> answer.name,
                          Model |-> answer.model, FirmwareVersion |-> answer.fw,
                          Generation |-> da.Generation, IP |-> da.IP,
                          Port |-> da.Port, Username |-> credentials.username,
                          Password |-> credentials.password]]

\* the goroutine of scanSubnetForDevices for one address
ProbeIP(l, ip) ==
    LET host == IPString(ip)
        info == GetShelly(l.network, host \o Text(":80"))
        generation == IF info.Generation = 0 THEN 1 ELSE info.Generation
    IN  IF info.err THEN [err |-> TRUE, device |-> <<>>]
        ELSE FetchDevice(l.network,
                         [IP |-> ip, HostName |-> host \o Text(":80"),
                          Port |-> 80, Generation |-> generation],
                         scanCredentials(l, host))

\* the addresses of the --subnet ranges that can be parsed, in order
RECURSIVE ExpandAll(_)
ExpandAll(subnets) ==
    IF subnets = <<>> THEN <<>>
    ELSE (IF ExpandCIDR(Head(subnets)).err THEN <<>>
          ELSE ExpandCIDR(Head(subnets)).ips) \o ExpandAll(Tail(subnets))

\* the devices the probes of a list of addresses give, address after address
RECURSIVE ProbeAll(_, _, _)
ProbeAll(l, ips, seen) ==
    IF ips = <<>> THEN <<>>
    ELSE (IF IPString(Head(ips)) \in seen \/ ProbeIP(l, Head(ips)).err
          THEN <<>>
          ELSE <<ProbeIP(l, Head(ips)).device>>)
             \o ProbeAll(l, Tail(ips), seen)

\* the addresses scanSubnetForDevices probes: the hosts of the local /24
\* subnets, then those of the --subnet ranges
ScanTargets(ifaces, subnets) == AllLocalSubnets(ifaces) \o ExpandAll(subnets)

\* scanSubnetForDevices: every address that is not in seen is probed; only
\* the addresses of devices are looked at here, no other address answers
scanSubnetForDevices(l, seen) ==
    LET ips == ScanTargets(l.ifaces, l.subnets)
        live == SelectSeq(ips, LAMBDA ip : ip \in DOMAIN l.network)
    IN  IF Len(ips) = 0 THEN [err |-> TRUE, devices |-> <<>>]
        ELSE [err |-> FALSE, devices |-> ProbeAll(l, live, seen)]

\* the lists with the same elements in another order
Reordered(s) ==
    { [i \in 1..Len(s) |-> s[p[i]]] :
        p \in {q \in [1..Len(s) -> 1..Len(s)] :
                 \A i, j \in 1..Len(s) : i # j => q[i] # q[j]} }

\* the service and the catalog client are not in use
AtRest ==
    /\ force = FALSE
    /\ includeBetas = FALSE
    /\ modelFilter = {}
    /\ excludePatterns = {}
    /\ vendor = EmptyMap
    /\ apiUp = TRUE
    /\ hw = [d \in Devs |-> [Model |-> Profiles[1].Model,
                             Generation |-> Profiles[1].Generation]]
    /\ devFw = [d \in Devs |-> Profiles[1].fw]
    /\ devOrder = [d \in Devs |-> NoURL]
    /\ pc = "browser"
    /\ pass = 0
    /\ devices = NilDevices
    /\ firmwares = EmptyMap
    /\ firmwareCache = NoDownloads
    /\ deviceHandlers = EmptyMap
    /\ remaining = {}
    /\ hadSteppingStone = FALSE
    /\ worker = [d \in Devs |-> IdleWorker]
    /\ doneCh = [d \in Devs |-> FALSE]
    /\ envFault = FALSE
    /\ prevFw = [d \in Devs |-> V_empty]
    /\ seenFw = [d \in Devs |-> V_empty]
    /\ prompted = {}
    /\ vendorGets = [catalog |-> 0, firmware |-> [x \in {} |-> 0]]
    /\ calls = [c \in Callers |-> IdleCall]
    /\ files = NoFiles
    /\ lookup = NoLookup
    /\ ServiceIdle
    /\ ServerIdle

\* the network, the machine and the arguments of a discovery
InitBrowser ==
    /\ AtRest
    /\ AloneIdle
    /\ browser = NoBrowser
    /\ lan \in [network : Networks, ifaces : Interfaces, subnets : Subnets,
                hosts : HostLists, announcements : Announcements, mdns : BOOLEAN,
                netrc : Netrcs, global : Globals]
    /\ lan.hosts # <<>> =>
           /\ lan.announcements = <<>>
           /\ lan.mdns
           /\ lan.ifaces = <<>>
           /\ lan.subnets = <<>>
    /\ ~lan.mdns => lan.announcements = <<>> /\ lan.ifaces = <<>> /\ lan.subnets = <<>>

\* what the discovery on its own leaves alone
unbrowsed ==
    <<config, apiUse, devFw, devOrder, pc, pass, devices, firmwares, firmwareCache,
      deviceHandlers, remaining, hadSteppingStone, worker, doneCh, envFault, prevFw,
      seenFw, prompted, vendorGets, scans, returned, statuses, installs, request,
      lan, calc, pool>>

\* ListenForAnnouncements begins: the goroutines of findShellies and of
\* fetchSettings are started; with hosts it goes through them, without it
\* browses, which may fail at once, and then it returns the error
BrowserStart ==
    /\ browser.pc = "idle"
    /\ LET started == [browser EXCEPT !.finder = "running", !.fetcher = "running"]
       IN  browser' =
               IF lan.hosts # <<>> THEN [started EXCEPT !.pc = "hosts"]
               ELSE IF lan.mdns THEN [started EXCEPT !.pc = "browse"]
               ELSE [started EXCEPT !.pc = "returned", !.err = TRUE]
    /\ UNCHANGED unbrowsed

\* an announcement arrives while the context is not done, and findShellies
\* looks at it
BrowseEntry ==
    /\ browser.pc = "browse"
    /\ browser.next <= Len(lan.announcements)
    /\ browser' = [findShellies(browser, lan.announcements[browser.next])
                      EXCEPT !.next = @ + 1]
    /\ UNCHANGED unbrowsed

\* the context is done: the entries channel is closed
BrowseDone ==
    /\ browser.pc = "browse"
    /\ browser' = [browser EXCEPT !.pc = "collect", !.entries = "closed"]
    /\ UNCHANGED unbrowsed

\* a faulty variant of SkipHost: the entry ends the discovery with an error
SkipHostFail(b) == [b EXCEPT !.pc = "returned", !.err = TRUE, !.devices = <<>>]

\* the continue of the loop over the hosts
SkipHost(b) == [b EXCEPT !.next = @ + 1]

\* one round of the loop over the hosts
ExplicitHost ==
    /\ browser.pc = "hosts"
    /\ browser.next <= Len(lan.hosts)
    /\ LET parsed == ParseHost(lan.network, lan.hosts[browser.next].text)
       IN  browser' = IF parsed.skip THEN SkipHost(browser)
                      ELSE [findShellies(browser, parsed.entry) EXCEPT !.next = @ + 1]
    /\ UNCHANGED unbrowsed

\* the loop over the hosts is over: the entries channel is closed
HostsDone ==
    /\ browser.pc = "hosts"
    /\ browser.next > Len(lan.hosts)
    /\ browser' = [browser EXCEPT !.pc = "collect", !.entries = "closed"]
    /\ UNCHANGED unbrowsed

\* a goroutine of fetchSettings, for one announcement: the device it makes is
\* received by ListenForAnnouncements
fetchSettings(da) ==
    /\ browser.pc \in {"browse", "hosts", "collect"}
    /\ da \in browser.found
    /\ LET fetched == FetchDevice(lan.network, da, fetchCredentials(lan, da))
       IN  browser' = [browser EXCEPT
               !.found = @ \ {da},
               !.devices = IF fetched.err THEN @ ELSE Append(@, fetched.device)]
    /\ UNCHANGED unbrowsed

\* the range of findShellies over the entries channel ends when the channel
\* is closed; findShellies closes the devices channel and returns
FindShelliesDone ==
    /\ browser.entries = "closed"
    /\ browser.finder = "running"
    /\ browser' = [browser EXCEPT !.finder = "done"]
    /\ UNCHANGED unbrowsed

\* the range of fetchSettings over the devices channel ends when the channel
\* is closed; when its goroutines have sent their devices, fetchSettings
\* closes the channel of the fetched devices and returns
FetchSettingsDone ==
    /\ browser.finder = "done"
    /\ browser.fetcher = "running"
    /\ browser.found = {}
    /\ browser' = [browser EXCEPT !.fetcher = "done"]
    /\ UNCHANGED unbrowsed

\* every device has been received; without hosts the subnets are scanned, an
\* error of the scan is logged, and the devices of the scan are added in the
\* order their goroutines end
ListenReturn ==
    /\ browser.pc = "collect"
    /\ browser.fetcher = "done"
    /\ IF lan.hosts = <<>>
       THEN LET seen == {IPString(browser.devices[i].IP) :
                           i \in 1..Len(browser.devices)}
                scan == scanSubnetForDevices(lan, seen)
            IN  \E extra \in Reordered(scan.devices) :
                    browser' = [browser EXCEPT !.pc = "returned",
                                               !.devices = @ \o extra]
       ELSE browser' = [browser EXCEPT !.pc = "returned"]
    /\ UNCHANGED unbrowsed

NextBrowser ==
    \/ BrowserStart
    \/ BrowseEntry
    \/ BrowseDone
    \/ ExplicitHost
    \/ HostsDone
    \/ \E da \in browser.found : fetchSettings(da)
    \/ FindShelliesDone
    \/ FetchSettingsDone
    \/ ListenReturn

SpecBrowser == InitBrowser /\ [][NextBrowser]_vars


\* ------------------------------------------------------------------------
\* Properties
\* ------------------------------------------------------------------------

\* the firmware version strings that occur: reported by a device or listed in
\* the catalog or in the stepping-stone table
Versions ==
    {V_empty, V_1_0_0, V_1_2_0, V_1_2_0_b1, V_1_3_3, V_1_4_0_beta, V_1_5_0, V_1_6_0_beta,
     V_gen1_1_0_0, V_gen1_1_6_0}

\* a is below b by their extracted semantic versions, tabulated over Versions
SemanticallyLess ==
    [a \in Versions |-> [b \in Versions |->
        isVersionLessThan(extractSemanticVersion(a), extractSemanticVersion(b))]]

\* what NeedsSteppingStone answers for a device, tabulated over the
\* generations, models and version strings that occur
SteppingStoneAnswers ==
    [g \in {1, 2} |-> [m \in {"Plus1", "Pro1", "SHSW-25"} |-> [v \in Versions |->
        NeedsSteppingStone([Generation |-> g, Model |-> m, FirmwareVersion |-> v])]]]

SteppingStoneAnswer(device) ==
    SteppingStoneAnswers[device.Generation][device.Model][device.FirmwareVersion]

\* the targets of the current index have been computed
TargetsResolved ==
    devices.set /\ pc \notin {"setup", "setupTargets", "refresh", "refreshTargets"}

IsSteppingStoneEntry(device) ==
    /\ device.Model \in DOMAIN steppingStone133
    /\ device.FirmwareNewestVersion = steppingStone133[device.Model]

C2_NeverBeyondSteppingStone ==
    \A d \in DOMAIN devices.map :
        LET device == devices.map[d]
        IN  (/\ worker[d].gets > 0
             /\ device.Generation >= 2
             /\ SemanticallyLess[device.FirmwareVersion][steppingStoneVersion])
            => ~SemanticallyLess[steppingStoneVersion][worker[d].file.version]

\* C3: NeedsSteppingStone returns (table entry, true) exactly when the device
\* is of generation 2 or more, the semantic version extracted from its
\* reported firmware string is below 1.3.3 and its model is in the table; in
\* every other case it returns the empty firmware and false.
C3_NeedsSteppingStoneExactly ==
    \A d \in DOMAIN devices.map :
        LET device == devices.map[d]
            expected ==
                /\ device.Generation >= 2
                /\ SemanticallyLess[device.FirmwareVersion][steppingStoneVersion]
                /\ device.Model \in DOMAIN steppingStone133
        IN  SteppingStoneAnswer(device) =
                IF expected THEN [fw |-> steppingStone133[device.Model], needed |-> TRUE]
                ELSE [fw |-> NoFirmware, needed |-> FALSE]

\* C4: for every device in the index, a non-empty target was selected by the
\* stepping-stone policy, or the device's extracted version is below the
\* target's stable version, or beta mode is on, the target has a beta version
\* and the device's extracted version is below that beta version.
C4_TargetIsJustified ==
    \A d \in DOMAIN devices.map :
        LET device == devices.map[d]
            target == device.FirmwareNewestVersion
        IN  target # NoFirmware =>
                \/ IsSteppingStoneEntry(device)
                \/ SemanticallyLess[device.FirmwareVersion][target.Version]
                \/ /\ includeBetas
                   /\ target.BetaVersion # V_empty
                   /\ SemanticallyLess[device.FirmwareVersion][target.BetaVersion]

\* a device at 1.3.3 whose catalog entry has an older stable version is given
\* the entry as target because of its beta version alone
C4_Witness ==
    /\ TargetsResolved
    /\ includeBetas
    /\ \E d \in DOMAIN devices.map :
         LET device == devices.map[d]
         IN  /\ device.FirmwareNewestVersion # NoFirmware
             /\ ~SteppingStoneAnswer(device).needed
             /\ ~SemanticallyLess[device.FirmwareVersion][device.FirmwareNewestVersion.Version]
             /\ SemanticallyLess[device.FirmwareVersion]
                                 [device.FirmwareNewestVersion.BetaVersion]

\* C5: after a pass with a stepping-stone upgrade, the targets of the next
\* pass are computed from the version each device reports at re-discovery: the
\* index holds that version, and a device that was below 1.3.3 before and
\* reports 1.3.3 now has the catalog's (newer) stable firmware as target.
C5_TargetsFromRediscovery ==
    (pass >= 1 /\ TargetsResolved) =>
        \A d \in DOMAIN devices.map :
            LET device == devices.map[d]
                latest == GetLatestFirmwareAvailable(firmwares, device.Model)
            IN  /\ device.FirmwareVersion = seenFw[d]
                /\ (/\ SemanticallyLess[prevFw[d]][steppingStoneVersion]
                    /\ seenFw[d] = V_1_3_3
                    /\ ~latest.err
                    /\ SemanticallyLess[V_1_3_3][latest.fw.Version])
                   => /\ device.FirmwareNewestVersion = latest.fw
                      /\ ~IsSteppingStoneEntry(device)

\* the second pass is about to start for a device that was at 1.0.0 in the
\* first pass and reported 1.3.3 at re-discovery: its target is the 1.5.0 entry
C5_Witness ==
    /\ pc = "pass"
    /\ pass = 1
    /\ \E d \in DOMAIN devices.map :
         /\ prevFw[d] = V_1_0_0
         /\ devices.map[d].FirmwareVersion = V_1_3_3
         /\ devices.map[d].FirmwareNewestVersion = firmwares[devices.map[d].Model]
         /\ devices.map[d].FirmwareNewestVersion.Version = V_1_5_0

\* C6: when a pass has used a stepping-stone target, both the discovery cache
\* and the catalog cache are cleared before the targets are recomputed.
C6_BothCachesCleared ==
    pc = "refresh" => (~devices.set /\ DOMAIN firmwares = {})


\* upgradePass returns to PromptForUpgrades without an error
PassCompletes == pc \in {"loop", "wait"} /\ pc' \notin {"loop", "wait", "failed"}

\* a device dispatched in this pass had a stepping-stone table entry as target
UsedSteppingStoneTarget ==
    \E d \in DOMAIN devices.map :
        worker[d].stage # "idle" /\ IsSteppingStoneEntry(devices.map[d])

\* C7: when a pass completes, PromptForUpgrades goes on to another pass if
\* and only if at least one device upgraded in that pass used a stepping-stone
\* target; otherwise (also when every such device was declined) it stops.
C7_AnotherPassIffSteppingStone ==
    [][PassCompletes => ((pc' # "done") <=> UsedSteppingStoneTarget)]_vars

\* a second pass is entered, so the first one dispatched a stepping-stone
\* upgrade, and in it the user declines the device that still needs the
\* stepping-stone and has another device upgraded: this pass will be the last
C7_Witness ==
    /\ pc = "loop"
    /\ pass = 2
    /\ remaining = {}
    /\ ~hadSteppingStone
    /\ \E d \in DOMAIN devices.map :
         worker[d].stage = "idle" /\ IsSteppingStoneEntry(devices.map[d])
    /\ \E d \in DOMAIN devices.map : worker[d].stage = "done"

\* C8: for every device and every pass: discovery, then target resolution,
\* then the handler is installed, then the OTA trigger GET is sent, then the
\* handler serves the file, then verification starts; a device holds no OTA
\* command before its handler is installed and verification does not start
\* before the handler has signalled completion.
C8_EventOrder ==
    \A d \in Devs :
        /\ worker[d].stage # "idle" =>
               (devices.set /\ devices.map[d].FirmwareNewestVersion # NoFirmware)
        /\ worker[d].gets > 0 =>
               (d \in DOMAIN deviceHandlers /\ deviceHandlers[d].pass = pass)
        /\ worker[d].served => worker[d].gets > 0
        /\ worker[d].stage = "verify" => worker[d].served
        /\ worker[d].verdict # "none" => worker[d].served
        /\ devOrder[d] # NoURL => d \in DOMAIN deviceHandlers

\* C9: with force set no prompt is shown and every device with a non-empty
\* target is downloaded and triggered in the pass, in beta mode or not, for
\* stepping-stone entries and for catalog entries without a beta version: the
\* pass is not abandoned unless the vendor's server fails, and at its end
\* every device with a target has had its trigger GET.
C9_ForceUpgradesEveryTarget ==
    force =>
        /\ pc = "failed" => envFault
        /\ (pc \in {"loop", "done", "capped"} /\ remaining = {} /\ WorkersFinished) =>
               \A d \in DOMAIN devices.map :
                   devices.map[d].FirmwareNewestVersion # NoFirmware
                       => worker[d].gets = 1

\* C10: for each confirmed device of a pass exactly one trigger GET is sent,
\* to the device's own address, with a URL that names the path /{deviceId} on
\* the local OTA server's IP and port; it is never repeated within the pass.
C10_OneTriggerPerDevice ==
    \A d \in Devs :
        /\ worker[d].gets <= 1
        /\ worker[d].stage \in {"waiting", "verify", "done"} => worker[d].gets = 1
        /\ worker[d].stage \in {"idle", "start", "installed"} => worker[d].gets = 0
        /\ worker[d].gets = 1 =>
               /\ worker[d].url.path = d
               /\ worker[d].url.host = serverIP
               /\ worker[d].url.port = serverPort
               /\ worker[d].url.base.ip = DeviceIP(IndexOf(d))
        /\ devOrder[d] # NoURL => devOrder[d].path = d

\* in the second pass both devices have been triggered once each and are done
C10_Witness ==
    /\ pass = 2
    /\ \A d \in Devs :
         /\ worker[d].stage = "done"
         /\ worker[d].gets = 1
         /\ worker[d].url = OTAURL(devices.map[d], serverIP, serverPort, d)

\* C11: a device whose target is empty is not prompted for, has no firmware
\* downloaded and no handler installed for it and is sent no OTA trigger, in
\* any pass: no prompt of the pass names it and no UpgradeDevice goroutine,
\* which is what installs the handler and sends the trigger, has been started
\* for it (it has no file and has sent no trigger GET).
C11_NoTargetNoUpgrade ==
    \A d \in DOMAIN devices.map :
        devices.map[d].FirmwareNewestVersion = NoFirmware =>
            /\ d \notin prompted
            /\ worker[d].stage = "idle"
            /\ worker[d].file = NoFile
            /\ worker[d].gets = 0

\* in the second pass a device that was upgraded in the first pass (its handler
\* is still there) has no target any more and has been passed over, while the
\* other device has been sent its trigger
C11_Witness ==
    /\ pc = "loop"
    /\ pass = 2
    /\ remaining = {}
    /\ \E d, e \in DOMAIN devices.map :
         /\ devices.map[d].FirmwareNewestVersion = NoFirmware
         /\ d \in DOMAIN deviceHandlers
         /\ worker[d] = IdleWorker
         /\ worker[e].gets = 1

\* C12: when the handler of a device does not signal completion within 120
\* seconds of the trigger, UpgradeDevice returns nil without running
\* verification: no poll is made and no verdict reached, the pass does not
\* fail or change course, and the goroutines of the other devices are not
\* touched.
C12_TimeoutIsNotAFailure ==
    [][\A d \in Devs :
          (worker[d].stage = "waiting" /\ worker'[d].stage # "waiting" /\ ~doneCh[d]) =>
              /\ worker'[d].stage = "done"
              /\ worker'[d].ret = "nil"
              /\ worker'[d].verdict = "none"
              /\ worker'[d].polls = 0
              /\ pc' = pc
              /\ remaining' = remaining
              /\ \A e \in Devs \ {d} : worker'[e] = worker[e]]_vars

\* the pass has returned normally and the run has ended without error after
\* one device timed out (triggered, never served, no verdict, nil returned)
\* while the upgrade of the other one was verified
C12_Witness ==
    /\ pc = "done"
    /\ \E d, e \in Devs :
         /\ worker[d].stage = "done"
         /\ worker[d].gets = 1
         /\ ~worker[d].served
         /\ worker[d].ret = "nil"
         /\ worker[d].verdict = "none"
         /\ worker[e].verdict = "verified"

\* C13: verifyUpgrade makes at most five polls, makes no poll after one that
\* matched and always comes to an end (while it runs, fewer than five polls
\* have been made and the next one can be made); whatever the polls return,
\* its outcome is a verdict and UpgradeDevice returns nil, never an error.
C13_VerifyIsBounded ==
    /\ Len(delays) = 5
    /\ \A d \in Devs :
         /\ worker[d].polls < Len(delays)
         /\ worker[d].polls > 0 => worker[d].stage = "verify"
         /\ worker[d].stage = "verify" =>
                (worker[d].verdict = "none" /\ worker[d].ret = "none")
         /\ (worker[d].stage = "verify" /\ Running) => ENABLED verifyUpgrade(d)
         /\ worker[d].verdict # "none" =>
                (worker[d].stage = "done" /\ worker[d].ret = "nil")

\* one device is about to be polled for the fifth time while the verification
\* of the other one has ended unverified without failing anything
C13_Witness ==
    /\ pc = "loop"
    /\ \E d, e \in Devs :
         /\ worker[d].stage = "verify"
         /\ worker[d].polls = 4
         /\ worker[e].stage = "done"
         /\ worker[e].verdict = "unverified"
         /\ worker[e].ret = "nil"

\* C14: verifyUpgrade reports success exactly when some poll returned the
\* version of the firmware that was chosen and served to the device in this
\* pass, the stable version for the stable channel and the beta version for
\* the beta channel.
C14_VerifiedIffServedVersion ==
    \A d \in Devs :
        worker[d].verdict # "none" =>
            (worker[d].verdict = "verified" <=> worker[d].matched)

\* C15: calls of DownloadFirmware in sequence for the same firmware and channel
\* send one GET in all and return the same path, the one the cache holds for
\* the id; firmwares with different ids are fetched separately, one GET each.
C15_DownloadedOnce ==
    /\ \A id \in DOMAIN vendorGets.firmware : vendorGets.firmware[id] = 1
    /\ \A id \in DOMAIN firmwareCache :
         /\ id \in DOMAIN vendorGets.firmware
         /\ firmwareCache[id] = [model |-> id.model, version |-> id.version]
    /\ \A d \in Devs :
         worker[d].stage # "idle" =>
             \E id \in DOMAIN firmwareCache : firmwareCache[id] = worker[d].file

\* in the second pass the firmware of both devices, the same one, has been
\* downloaded with one GET, after another firmware in the first pass
C15_Witness ==
    /\ pass = 2
    /\ Cardinality(DOMAIN firmwareCache) = 2
    /\ \E d, e \in Devs :
         /\ d # e
         /\ worker[d].stage # "idle"
         /\ worker[e].stage # "idle"
         /\ worker[d].file = worker[e].file
         /\ \E id \in DOMAIN firmwareCache :
              firmwareCache[id] = worker[d].file /\ vendorGets.firmware[id] = 1

\* C16: for every interleaving of concurrent DownloadFirmware calls with the
\* same firmware id the firmware is downloaded at most once (no two calls
\* both get it from the vendor) and every call that has returned a path
\* returned the path of a completely written file.
C16_ConcurrentDownloadOnce ==
    /\ \A c1, c2 \in Callers :
         (c1 # c2 /\ calls[c1].fetched /\ calls[c2].fetched)
             => CallID(calls[c1]) # CallID(calls[c2])
    /\ \A c \in Callers :
         (calls[c].stage = "returned" /\ ~calls[c].err) =>
             /\ calls[c].path \in DOMAIN files
             /\ files[calls[c].path] = "complete"

\* C17: the catalog is populated once: once FetchVersions has returned a
\* catalog, with entries or without, the later calls on the client send no
\* request, so that the vendor's endpoints are asked at most once in a run in
\* which they answer.
C17_CatalogFetchedOnce ==
    apiUp => vendorGets.catalog <= 1

\* C18: when the Gen1 catalog cannot be fetched at all, Setup returns an error
\* and the run fails: it does not go on to the filter and the passes with
\* every device left without a target.
C18_CatalogFailureIsFatal ==
    (~apiUp /\ pc \notin {"setup", "setupTargets"}) => pc = "failed"

\* C19: a failure to download the firmware of one device does not make
\* PromptForUpgrades return an error: once the devices are discovered, the
\* run does not fail.
C19_DownloadFailureIsLocal ==
    pc = "failed" => ~devices.set

\* C20: GetLatestFirmwareAvailable(M) on a catalog C returns C[M] when M is in
\* C, also when an alias or an API name would match; otherwise the entry of
\* the base model the alias table gives for M when that is in C; otherwise the
\* entry of an internal name in C whose API name is M; otherwise the not-found
\* error and the empty firmware.
C20_LookupOrder ==
    lookup # NoLookup =>
        LET M == lookup.model
            C == vendor
            viaAlias == M \in DOMAIN gen2PlusDeviceAliases
                            /\ gen2PlusDeviceAliases[M] \in DOMAIN C
            viaName == {i \in DOMAIN C : i \in DOMAIN gen2PlusAPINames
                                            /\ gen2PlusAPINames[i] = M}
        IN  /\ M \in DOMAIN C => (~lookup.err /\ lookup.fw = C[M])
            /\ (M \notin DOMAIN C /\ viaAlias) =>
                   (~lookup.err /\ lookup.fw = C[gen2PlusDeviceAliases[M]])
            /\ (M \notin DOMAIN C /\ ~viaAlias /\ viaName # {}) =>
                   (~lookup.err /\ \E i \in viaName : lookup.fw = C[i])
            /\ (M \notin DOMAIN C /\ ~viaAlias /\ viaName = {}) =>
                   (lookup.err /\ lookup.fw = NoFirmware)

\* the variant model is looked up in a catalog that holds an entry for it and
\* one for its base model: the lookup returned its own entry
C20_Witness ==
    /\ lookup.model = "S2PMG4ZB"
    /\ {"S2PMG4ZB", "2PMG4"} \subseteq DOMAIN vendor
    /\ ~lookup.err
    /\ lookup.fw = vendor["S2PMG4ZB"]
    /\ lookup.fw # vendor["2PMG4"]

\* a device of the network that the filter of this run removes from the index,
\* tabulated over the filters, the devices and the models that occur
FilteredOutTable ==
    [mf \in {{}, {"Pro1"}} |-> [ex \in ExcludeInputs |-> [d \in Devs |->
        [m \in {"Plus1", "Pro1", "SHSW-25"} |->
            LET device == [ID |-> d, Name |-> DeviceName(IndexOf(d)),
                           IP |-> DeviceIP(IndexOf(d)), Port |-> 80, Model |-> m]
            IN  \/ mf # {} /\ m \notin mf
                \/ \E pattern \in ex :
                      \/ Match(pattern, String(device))
                      \/ Match(pattern, Text(device.Name))
                      \/ Match(pattern, Text(device.ID))]]]]

FilteredOut(d) == FilteredOutTable[modelFilter][excludePatterns][d][hw[d].Model]

\* the index has been filtered: a pass or the status list works on it
IndexFiltered == devices.set /\ pc \in {"pass", "loop", "wait", "done", "capped"}

\* C21: DiscoverDevices runs the network discovery at most once between
\* resets: while the service holds an index no call contacts the network, and
\* a DiscoverDevices call returns that index as it is, also when FilterDevices
\* has emptied it; a call made while the index is nil (at the start, after
\* ResetDiscovery) runs one discovery.
C21_DiscoveryIsCached ==
    [][/\ devices.set => scans' = scans
       /\ (~devices.set /\ devices'.set) => scans' = scans + 1
       /\ (SvcDiscoverDevices /\ devices.set) =>
              /\ returned' = [index |-> devices, err |-> FALSE]
              /\ devices' = devices]_vars

\* the discovery has run twice, so the index was reset in between; the filter
\* has then removed every device and a further DiscoverDevices call returned
\* the empty index without a third discovery
C21_Witness ==
    /\ scans = 2
    /\ devices.set
    /\ devices.map = EmptyMap
    /\ returned = [index |-> devices, err |-> FALSE]

\* C27: in every pass, the passes after a re-discovery included, a device that
\* the filter rejects (its model is not in a non-empty model filter, or its
\* string form, name or id matches an exclude pattern) is not prompted for, has
\* no goroutine, receives no OTA trigger and is not in the status list made
\* from the filtered index; FilterDevices keeps every other device of the
\* index with its record, target included, unchanged.
C27_OnlyFilteredDevices ==
    /\ [](\A d \in Devs :
            FilteredOut(d) =>
                /\ d \notin prompted
                /\ worker[d] = IdleWorker
                /\ devOrder[d] = NoURL
                /\ IndexFiltered =>
                       /\ d \notin DOMAIN devices.map
                       /\ \A i \in 1..Cardinality(DOMAIN devices.map) :
                              ListDeviceStatus(devices.map)[i].ID # d)
    /\ [][pc = "filter" =>
            \A d \in DOMAIN devices.map :
                ~FilteredOut(d) =>
                    (d \in DOMAIN devices'.map /\ devices'.map[d] = devices.map[d])]_vars

\* in the second pass, after the re-discovery, a device that is excluded by a
\* pattern and runs a firmware below the stepping-stone is not in the index,
\* while the other device has been sent its trigger
C27_Witness ==
    /\ pass = 2
    /\ excludePatterns # {}
    /\ \E d, e \in Devs :
         /\ FilteredOut(d)
         /\ hw[d].Model = "Plus1"
         /\ devFw[d] = V_1_0_0
         /\ d \notin DOMAIN devices.map
         /\ e \in DOMAIN devices.map
         /\ worker[e].gets = 1

\* the list describes the index: one record for each device of it, marked up
\* to date with no target version exactly when the device has no target, with
\* the stable version of the target otherwise; the stepping-stone mark is set
\* exactly for a target that is the stepping-stone entry of the model
StatusesDescribe(list, index) ==
    /\ Len(list) = Cardinality(DOMAIN index)
    /\ \A d \in DOMAIN index :
         \E i \in 1..Len(list) :
            LET st == list[i]
                device == index[d]
                target == device.FirmwareNewestVersion
            IN  /\ st.ID = d
                /\ (st.UpToDate /\ st.TargetVersion = V_empty) <=> target = NoFirmware
                /\ target # NoFirmware =>
                       (st.TargetVersion = target.Version /\ ~st.UpToDate)
                /\ st.SteppingStone <=>
                       (target # NoFirmware /\ IsSteppingStoneEntry(device))

\* C28: ListDeviceStatus returns one record per device of the index; a record
\* has upToDate true and an empty targetVersion exactly when the device has no
\* target, otherwise targetVersion is the version of the target and upToDate
\* is false; steppingStone is true exactly when the device has a target and
\* that target is the one the stepping-stone policy selects.
C28_StatusListDescribesIndex ==
    [][SvcListDeviceStatus => StatusesDescribe(statuses', devices.map)]_vars

\* a list of two records: a device with the stepping-stone target 1.3.3 and a
\* device that is up to date
C28_Witness ==
    /\ Len(statuses) = 2
    /\ \E i, j \in 1..2 :
         /\ statuses[i].SteppingStone
         /\ statuses[i].TargetVersion = V_1_3_3
         /\ ~statuses[i].UpToDate
         /\ statuses[j].UpToDate
         /\ statuses[j].TargetVersion = V_empty

\* C29: a pass returns, on its error returns as well, only after every
\* UpgradeDevice goroutine it started has finished: outside the loop of a pass
\* and its wg.Wait no goroutine is running.
C29_WorkersJoined ==
    pc \notin {"loop", "wait"} => WorkersFinished

\* C30: when the user interrupts a prompt the run ends there: no device is
\* prompted for or dispatched after it, no later pass is started, the
\* goroutines already started are awaited, and PromptForUpgrades returns nil.
C30_InterruptEndsRun ==
    [][pc = "wait" =>
          /\ pc' \in {"wait", "done"}
          /\ pc' = "done" => WorkersFinished
          /\ prompted' = prompted
          /\ \A d \in Devs : worker[d].stage = "idle" => worker'[d].stage = "idle"]_vars

\* the handlers that have been installed for a device id, in order
Installed(x) == IF x \in Devs THEN installs[x] ELSE <<>>

\* the device id a path names, "" when it names none
Named(path) ==
    IF \E d \in Devs : path = <<"/">> \o Text(d)
    THEN CHOOSE d \in Devs : path = <<"/">> \o Text(d)
    ELSE ""

\* C25: a request for the path of a device id is answered by the handler that
\* is installed for that id when there is one, and with 404 when there is
\* none; a path that names no device id gets 404; the handler that answers is
\* never one that was installed for another id, so the file that is served
\* is the one assigned to the id of the path.
C25_RequestGetsOwnHandler ==
    [][\A path \in RequestPaths :
          SrvRequest(path) =>
              LET x == Named(path)
              IN  /\ request'.path = path
                  /\ IF x # "" /\ Installed(x) # <<>>
                     THEN /\ request'.status = 200
                          /\ request'.handler.device = x
                          /\ request'.handler \in {Installed(x)[i] :
                                                      i \in 1..Len(Installed(x))}
                          /\ request'.handler = deviceHandlers[x]
                     ELSE /\ request'.status = 404
                          /\ request'.handler = NoHandler]_vars

\* C25 witness: both devices have a handler, with different files, and the
\* request for the path of the second one has been answered by its handler
C25_Witness ==
    /\ pc = "service"
    /\ Len(installs["shelly-aa"]) = 1
    /\ Len(installs["shelly-bb"]) = 1
    /\ installs["shelly-aa"][1].file # installs["shelly-bb"][1].file
    /\ request.path = <<"/">> \o Text("shelly-bb")
    /\ request.status = 200
    /\ request.handler = installs["shelly-bb"][1]

\* C26: the handler map holds one handler under a device id, the one that was
\* installed last for it; a request that arrives after a later pass has
\* installed a handler for the id is answered by that handler, with the file
\* and the channel of the later pass, and never by an earlier one.
C26_LaterHandlerSupersedes ==
    [](\A d \in Devs :
          /\ d \in DOMAIN deviceHandlers <=> installs[d] # <<>>
          /\ installs[d] # <<>> =>
                 deviceHandlers[d] = installs[d][Len(installs[d])])
    /\ [][\A d \in Devs :
             (SrvRequest(<<"/">> \o Text(d)) /\ installs[d] # <<>>) =>
                 /\ request'.handler = installs[d][Len(installs[d])]
                 /\ request'.handler.pass =
                        installs[d][Len(installs[d])].pass
                 /\ \A i \in 1..(Len(installs[d]) - 1) :
                        request'.handler.pass > installs[d][i].pass]_vars

\* C26 witness: a second pass has installed a handler with another file for
\* a device that had one, and a request has been answered by the new one
C26_Witness ==
    /\ pc = "service"
    /\ Len(installs["shelly-aa"]) = 2
    /\ installs["shelly-aa"][1].file # installs["shelly-aa"][2].file
    /\ request.path = <<"/">> \o Text("shelly-aa")
    /\ request.handler = installs["shelly-aa"][2]
    /\ request.handler.pass = 2

\* the devices ListenForAnnouncements has returned
Listed == IF browser.pc = "returned" THEN browser.devices ELSE <<>>

\* C22: the list ListenForAnnouncements returns has no two devices with the
\* same IP address, whatever the announcements, the local subnets and the
\* --subnet ranges are, ranges that overlap each other or a local /24 included.
C22_NoDuplicateIP ==
    \A i, j \in 1..Len(Listed) : i # j => Listed[i].IP # Listed[j].IP

\* C23: every device of the discovery result has a generation of at least 1
\* and a model that is not empty, by whichever path it was discovered and
\* whatever its /shelly and settings answers hold.
C23_GenerationAndModel ==
    \A i \in 1..Len(Listed) : Listed[i].Generation >= 1 /\ Listed[i].Model # ""

\* a device that answers as the devices of its generation do
Regular(ip) ==
    /\ ip \in DOMAIN lan.network
    /\ lan.network[ip].shelly
    /\ lan.network[ip].json
    /\ lan.network[ip].status = 200
    /\ \/ lan.network[ip].gen \in 2..4 /\ lan.network[ip].rpc
       \/ lan.network[ip].gen = 0 /\ ~lan.network[ip].rpc

\* C24: an entry of the host list that cannot be parsed or resolved is
\* passed over: the discovery returns no error, no device of the result
\* comes from such an entry, and the devices named by the well-formed
\* entries of the list are discovered all the same.
C24_BadHostSkipped ==
    lan.hosts # <<>> =>
        /\ ~browser.err
        /\ \A i \in 1..Len(browser.devices) :
              \E k \in 1..Len(lan.hosts) :
                  /\ lan.hosts[k].wellFormed
                  /\ lan.hosts[k].ip = browser.devices[i].IP
        /\ browser.pc = "returned" =>
              \A k \in 1..Len(lan.hosts) :
                  (lan.hosts[k].wellFormed /\ Regular(lan.hosts[k].ip)) =>
                      \E i \in 1..Len(Listed) : Listed[i].IP = lan.hosts[k].ip

\* C24 witness: the list had an entry with a port that is no number for one
\* device and a well-formed entry for another one, and the discovery has
\* returned the second device alone, without an error
C24_Witness ==
    /\ browser.pc = "returned"
    /\ ~browser.err
    /\ Len(lan.hosts) = 2
    /\ lan.hosts[1].text = Text("10.0.0.1:abc")
    /\ Regular(IP_a)
    /\ Len(browser.devices) = 1
    /\ browser.devices[1].IP = IP_b
    /\ browser.devices[1].ID = "shelly-bb"

\* C31: the device index and the records in it (firmware version, target)
\* are written only while no UpgradeDevice goroutine is running: discovery,
\* Setup, refreshFirmwareTargets, FilterDevices and ResetDiscovery all run
\* outside the parallel phase of a pass, and the goroutines only read.
C31_IndexWrittenOutsideParallelPhase ==
    [][devices' # devices =>
           \A d \in Devs : worker[d].stage \in {"idle", "done"}]_vars

\* C31 witness: in the second pass, with the index discovered again and its
\* targets recomputed after the goroutines of the first pass, a goroutine is
\* running
C31_Witness ==
    /\ pass = 2
    /\ pc = "loop"
    /\ devices.set
    /\ \E d \in Devs :
         /\ worker[d].stage \in {"installed", "waiting", "verify"}
         /\ devices.map[d].FirmwareVersion = V_1_3_3
         /\ prevFw[d] # V_1_3_3

\* ---------------------------------------------------------------------------
\* Functions applied on their own: isVersionLessThan to three version texts,
\* ExpandCIDR to a CIDR text.

\* a version text and what it reads as: whether it is three integers separated
\* by dots, and the integers
VersionInput(text, ok, major, minor, patch) ==
    [text |-> Text(text), ok |-> ok, major |-> major, minor |-> minor,
     patch |-> patch]

VersionInputs ==
    { VersionInput("1.3.3", TRUE, 1, 3, 3),
      VersionInput("1.10.0", TRUE, 1, 10, 0),
      VersionInput("1.9.0", TRUE, 1, 9, 0),
      VersionInput("2.0.0", TRUE, 2, 0, 0),
      VersionInput("01.3.3", TRUE, 1, 3, 3),
      VersionInput("1.-3.3", TRUE, 1, -3, 3),
      VersionInput("1.3", FALSE, 0, 0, 0),
      VersionInput("1.3.3.4", FALSE, 0, 0, 0),
      VersionInput("1.x.3", FALSE, 0, 0, 0),
      VersionInput("1..3", FALSE, 0, 0, 0),
      VersionInput("", FALSE, 0, 0, 0) }

\* a CIDR text and what it reads as: whether it is an IPv4 address, a slash and
\* a mask length from 0 to 32, and the length
CIDRInput(text, valid, bits) == [text |-> Text(text), valid |-> valid, bits |-> bits]

CIDRInputs ==
    { CIDRInput("10.0.0.0/30", TRUE, 30),
      CIDRInput("10.0.2.1/30", TRUE, 30),
      CIDRInput("10.0.2.0/29", TRUE, 29),
      CIDRInput("192.168.100.0/24", TRUE, 24),
      CIDRInput("255.255.255.252/30", TRUE, 30),
      CIDRInput("10.0.2.0/31", TRUE, 31),
      CIDRInput("10.0.2.2/32", TRUE, 32),
      CIDRInput("10.0.0.0/8", TRUE, 8),
      CIDRInput("128.0.0.0/1", TRUE, 1),
      CIDRInput("0.0.0.0/0", TRUE, 0),
      CIDRInput("10.0.2/30", FALSE, 0),
      CIDRInput("10.0.2.0/33", FALSE, 0),
      CIDRInput("not-a-cidr", FALSE, 0),
      CIDRInput("", FALSE, 0) }

\* the broadcast address of a network: ipNet.IP[i] | ^ipNet.Mask[i]
Broadcast(ipNet) ==
    [k \in 1..4 |-> ipNet.IP[k] + Pow2(HostBits(ipNet.bits, k)) - 1]

\* ExpandCIDR is called with a CIDR text
ExpandCall(input) ==
    [pc |-> "expand", cidr |-> input, ipNet |-> ParseCIDR(<<>>), broadcast |-> NilIP,
     candidate |-> NilIP, ips |-> <<>>, n |-> 0, full |-> TRUE, past |-> FALSE,
     err |-> FALSE]

\* the loop of ExpandCIDR at one of the last addresses of a range that is too
\* large to be followed from its first address; ips holds what is appended
\* from here on
ExpandLate(input, back) ==
    LET ipNet == ParseCIDR(input.text)
    IN  [ExpandCall(input) EXCEPT
            !.pc = "loop", !.ipNet = ipNet, !.broadcast = Broadcast(ipNet),
            !.candidate = [Broadcast(ipNet) EXCEPT ![4] = 255 - back],
            !.full = FALSE]

InitCalc ==
    /\ AtRest
    /\ lan = NoLan
    /\ browser = NoBrowser
    /\ pool = NoPool
    /\ calc \in
         [pc : {"versions"}, a : VersionInputs, b : VersionInputs, c : VersionInputs]
           \cup { ExpandCall(input) : input \in {i \in CIDRInputs : ~i.valid \/ i.bits >= 24} }
           \cup { ExpandLate(input, back) :
                    input \in {i \in CIDRInputs : i.valid /\ i.bits < 24},
                    back \in 1..2 }

\* what the application of a function on its own leaves alone
uncalculated ==
    <<config, apiUse, devFw, devOrder, pc, pass, devices, firmwares, firmwareCache,
      deviceHandlers, remaining, hadSteppingStone, worker, doneCh, envFault, prevFw,
      seenFw, prompted, vendorGets, scans, returned, statuses, installs, request,
      lan, browser, pool>>

\* isVersionLessThan is applied to the pairs of the three texts
CompareVersions ==
    /\ calc.pc = "versions"
    /\ calc' = [pc |-> "compared", a |-> calc.a, b |-> calc.b, c |-> calc.c,
                aa |-> isVersionLessThan(calc.a.text, calc.a.text),
                ab |-> isVersionLessThan(calc.a.text, calc.b.text),
                ba |-> isVersionLessThan(calc.b.text, calc.a.text),
                bc |-> isVersionLessThan(calc.b.text, calc.c.text),
                ac |-> isVersionLessThan(calc.a.text, calc.c.text)]
    /\ UNCHANGED uncalculated

\* ExpandCIDR up to its loop: the text is parsed, the broadcast address is
\* computed, the candidate is the network address
ExpandCIDRBegin ==
    /\ calc.pc = "expand"
    /\ LET ipNet == ParseCIDR(calc.cidr.text)
       IN  calc' = IF ipNet.err
                   THEN [calc EXCEPT !.pc = "returned", !.err = TRUE]
                   ELSE [calc EXCEPT !.pc = "loop", !.ipNet = ipNet,
                                     !.broadcast = Broadcast(ipNet),
                                     !.candidate = ipNet.IP]
    /\ UNCHANGED uncalculated

\* one test of the loop of ExpandCIDR and, when the candidate is in the range,
\* one run of its body and the increment
ExpandCIDRLoop ==
    /\ calc.pc = "loop"
    /\ calc.n < MaxIterations
    /\ calc' =
         IF ~Contains(calc.ipNet, calc.candidate)
         THEN [calc EXCEPT !.pc = "returned"]
         ELSE [calc EXCEPT
                  !.ips = IF calc.candidate = calc.ipNet.IP
                             \/ calc.candidate = calc.broadcast
                          THEN @ ELSE Append(@, calc.candidate),
                  !.past = @ \/ calc.candidate = calc.broadcast,
                  !.candidate = incrementIP(@),
                  !.n = @ + 1]
    /\ UNCHANGED uncalculated

NextCalc ==
    \/ CompareVersions
    \/ ExpandCIDRBegin
    \/ ExpandCIDRLoop

SpecCalc == InitCalc /\ [][NextCalc]_vars

\* a is below b as triples of integers, both being three integers
Below(a, b) ==
    /\ a.ok
    /\ b.ok
    /\ \/ a.major < b.major
       \/ a.major = b.major /\ a.minor < b.minor
       \/ a.major = b.major /\ a.minor = b.minor /\ a.patch < b.patch

\* C32: isVersionLessThan is a strict order on the versions that parse: no
\* version is below itself, two versions are never each below the other, below
\* is transitive, and it compares major, then minor, then patch as integers;
\* it is false whenever either argument is not three integers separated by dots.
C32_StrictOrderOnVersions ==
    calc.pc = "compared" =>
        /\ ~calc.aa
        /\ calc.ab => ~calc.ba
        /\ calc.ab /\ calc.bc => calc.ac
        /\ calc.ab <=> Below(calc.a, calc.b)
        /\ ~calc.a.ok \/ ~calc.b.ok => ~calc.ab /\ ~calc.ba

\* C32 witness: 1.9.0, 1.10.0 and 2.0.0 have been compared and are in this order
C32_Witness ==
    /\ calc.pc = "compared"
    /\ calc.a.text = Text("1.9.0")
    /\ calc.b.text = Text("1.10.0")
    /\ calc.c.text = Text("2.0.0")
    /\ calc.ab
    /\ calc.bc
    /\ calc.ac
    /\ ~calc.ba

\* the addresses returned for a range of mask length up to 30: every address
\* between the network address and the broadcast address, each once, in
\* increasing order, 2^(32 - bits) - 2 of them
HostsOfRange(ips, ipNet, broadcast) ==
    /\ Len(ips) = Pow2(32 - ipNet.bits) - 2
    /\ ips[1] = incrementIP(ipNet.IP)
    /\ \A i \in 1..(Len(ips) - 1) : ips[i + 1] = incrementIP(ips[i])
    /\ incrementIP(ips[Len(ips)]) = broadcast

\* C33: for a valid IPv4 CIDR of mask length up to 30, 0 included, ExpandCIDR
\* terminates (once its loop has been through the broadcast address, the
\* candidate is outside the range and the loop ends) and returns the
\* 2^(32 - p) - 2 addresses between the network address and the broadcast
\* address, each once, in increasing order; for a text that is not a CIDR
\* it returns an error and no address.
C33_ExpandCIDRTerminatesWithHosts ==
    /\ calc.pc = "loop" /\ calc.past => ~Contains(calc.ipNet, calc.candidate)
    /\ calc.pc = "returned" /\ calc.cidr.valid /\ calc.cidr.bits <= 30 /\ calc.full =>
           /\ ~calc.err
           /\ calc.ipNet.bits = calc.cidr.bits
           /\ HostsOfRange(calc.ips, calc.ipNet, calc.broadcast)
    /\ calc.pc = "returned" /\ ~calc.cidr.valid => calc.err /\ calc.ips = <<>>

\* the credentials that go with an address: those of its .netrc entry when
\* there is one, the global ones otherwise, which are empty when none are
\* configured; the password in the form it has in a URL
Precedence(l, ip) ==
    IF \E machine \in DOMAIN l.netrc : machine = IPString(ip)
    THEN [username |-> l.netrc[IPString(ip)].login,
          password |-> QueryEscape(l.netrc[IPString(ip)].password)]
    ELSE [username |-> l.global.username,
          password |-> QueryEscape(l.global.password)]

\* C34: the credentials a discovered device is fetched with and keeps are
\* those of the .netrc entry of its address when there is one, otherwise the
\* global username and password when configured, otherwise empty; this holds
\* for the devices of the mDNS and host-list path and for those of the subnet
\* scan alike.
C34_CredentialPrecedence ==
    \A i \in 1..Len(browser.devices) :
        /\ browser.devices[i].Username =
               Precedence(lan, browser.devices[i].IP).username
        /\ browser.devices[i].Password =
               Precedence(lan, browser.devices[i].IP).password

\* C34 witness: a discovery has returned a device found by mDNS that has the
\* credentials of its .netrc entry and a device found by the subnet scan,
\* without an entry, that has the global ones
C34_Witness ==
    /\ browser.pc = "returned"
    /\ lan.announcements # <<>>
    /\ lan.global.username = Text("root")
    /\ \E i, j \in 1..Len(browser.devices) :
         /\ browser.devices[i].IP = IP_a
         /\ browser.devices[i].Username = Text("admin")
         /\ browser.devices[i].Password = <<"p", "%", "4", "0", "s", "s", "+", "w">>
         /\ browser.devices[j].IP = IP_c
         /\ IPString(IP_c) \notin DOMAIN lan.netrc
         /\ browser.devices[j].Username = Text("root")
         /\ browser.devices[j].Password = Text("pw")

\* the pipeline of a discovery is over: the entries channel is closed, the
\* goroutines of findShellies and of fetchSettings have returned, and no
\* announcement waits for its settings
PipelineFinished ==
    /\ browser.entries = "closed"
    /\ browser.finder = "done"
    /\ browser.fetcher = "done"
    /\ browser.found = {}

\* one of the steps of the discovery can be taken: the start, the end of the
\* browse, a round of the loop over the hosts or its end, a settings fetch,
\* the end of findShellies, the end of fetchSettings, the return
StepLeft ==
    \/ browser.pc \in {"idle", "browse", "hosts"}
    \/ browser.pc = "collect" /\ browser.found # {}
    \/ browser.entries = "closed" /\ browser.finder = "running"
    \/ browser.finder = "done" /\ browser.fetcher = "running" /\ browser.found = {}
    \/ browser.pc = "collect" /\ browser.fetcher = "done"

\* C35: ListenForAnnouncements comes to its return from every state (before
\* the return there is always a step to take), and at every return, the one
\* after a failed mDNS browse included, the pipeline is over: the channels
\* are closed and drained and no goroutine of it is blocked.
C35_ReturnsWithPipelineFinished ==
    /\ browser.pc # "returned" => StepLeft
    /\ browser.pc = "returned" => PipelineFinished

\* the well-formed entries of the host list whose address and port a
\* regular device answers at, as the distinct pairs of address and port
AnsweringEntries ==
    { <<lan.hosts[i].ip, lan.hosts[i].port>> :
        i \in {k \in 1..Len(lan.hosts) :
                 /\ lan.hosts[k].wellFormed
                 /\ Listens(lan.network, lan.hosts[k].ip, lan.hosts[k].port)
                 /\ Regular(lan.hosts[k].ip)} }

\* C40: with a host list, every well-formed entry that a device answers at
\* gives its own discovered device: the devices returned are as many as the
\* distinct host:port entries, one with the address and the port of each,
\* also when two entries have the same address and different ports.
C40_EachEntryItsDevice ==
    browser.pc = "returned" /\ lan.hosts # <<>> =>
        /\ \A e \in AnsweringEntries :
               \E i \in 1..Len(browser.devices) :
                   /\ browser.devices[i].IP = e[1]
                   /\ browser.devices[i].Port = e[2]
        /\ Len(browser.devices) = Cardinality(AnsweringEntries)

\* ---------------------------------------------------------------------------
\* The bounded pools of goroutines on their own: the fan-out of FetchVersions
\* over the Gen2+ models and the probes of scanSubnetForDevices.  Both have
\* the same frame: a semaphore channel sem of maxWorkers places that the loop
\* sends to before it starts a goroutine and the goroutine receives from when
\* it returns, a WaitGroup wg, and a mutex mu around the shared map or list.
\* The goroutines are counted by where they are.

\* no call has returned
NoResult == [err |-> FALSE, entries |-> 0, fetched |-> FALSE]

\* a pool before its call: the function, maxWorkers, the items of its loop,
\* the entries of the Gen1 list (FetchVersions), the call (first or second),
\* the items not started, the goroutines whose request is under way, those
\* that wait for mu to write or to set fetchErr, those that hold mu to write
\* or to set fetchErr, fetchErr, the entries of the shared map or list,
\* whether this call has asked the vendor, and what the calls returned
PoolOf(kind, maxWorkers, items, gen1) ==
    [pc |-> "called", kind |-> kind, maxWorkers |-> maxWorkers, items |-> items,
     gen1 |-> gen1, call |-> 1, todo |-> 0, requesting |-> 0, wantWrite |-> 0,
     wantErr |-> 0, writing |-> 0, setting |-> 0, fetchErr |-> FALSE,
     entries |-> 0, fetched |-> FALSE, result |-> NoResult, first |-> NoResult]

InitPool ==
    /\ AtRest
    /\ lan = NoLan
    /\ browser = NoBrowser
    /\ calc = NoCalc
    /\ pool \in { PoolOf("FetchVersions", 10, items, gen1) :
                     items \in {2, MaxModels}, gen1 \in {0, 1} }
                 \cup { PoolOf("scanSubnetForDevices", 50, items, 0) :
                          items \in {1, MaxAddresses} }

\* what a pool on its own leaves alone
unpooled ==
    <<config, apiUse, devFw, devOrder, pc, pass, devices, firmwares, firmwareCache,
      deviceHandlers, remaining, hadSteppingStone, worker, doneCh, envFault, prevFw,
      seenFw, prompted, vendorGets, scans, returned, statuses, installs, request,
      lan, browser, calc>>

\* the goroutines that have been started and have not returned: each holds a
\* place of sem and counts in wg
Live(p) == p.requesting + p.wantWrite + p.wantErr + p.writing + p.setting

\* a faulty variant of SemFree: the send on sem never blocks
SemUnbounded(p) == TRUE

\* the send on sem does not block: fewer than maxWorkers places are taken
SemFree(p) == Live(p) < p.maxWorkers

\* mu.Lock does not block
MuFree(p) == p.writing + p.setting = 0

\* the call up to its loop.  FetchVersions returns the map the client holds
\* when it is not empty; otherwise it gets the Gen1 list, returns the error
\* when that fails, and else makes a new map with the entries of the list.
\* scanSubnetForDevices has its addresses.
PoolCall ==
    /\ pool.pc = "called"
    /\ IF pool.kind = "FetchVersions"
       THEN IF pool.entries > 0
            THEN pool' = [pool EXCEPT
                     !.pc = "returned",
                     !.result = [err |-> FALSE, entries |-> pool.entries,
                                 fetched |-> FALSE]]
            ELSE \E ok \in BOOLEAN :
                   pool' = IF ok
                           THEN [pool EXCEPT !.pc = "loop", !.fetched = TRUE,
                                             !.entries = pool.gen1,
                                             !.todo = pool.items]
                           ELSE [pool EXCEPT
                                    !.pc = "returned", !.fetched = TRUE,
                                    !.result = [err |-> TRUE, entries |-> 0,
                                                fetched |-> TRUE]]
       ELSE pool' = [pool EXCEPT !.pc = "loop", !.todo = pool.items]
    /\ UNCHANGED unpooled

\* the head of a round of the loop: FetchVersions locks mu, reads fetchErr,
\* unlocks, and leaves the loop when an error is set
PoolRound ==
    /\ pool.pc = "loop"
    /\ pool.todo > 0
    /\ pool.kind = "FetchVersions" => MuFree(pool)
    /\ pool' = IF pool.kind = "FetchVersions" /\ pool.fetchErr
               THEN [pool EXCEPT !.pc = "wait"]
               ELSE [pool EXCEPT !.pc = "spawn"]
    /\ UNCHANGED unpooled

\* wg.Add(1), the send on sem, and the go statement
PoolSpawn ==
    /\ pool.pc = "spawn"
    /\ SemFree(pool)
    /\ pool' = [pool EXCEPT !.pc = "loop", !.todo = @ - 1, !.requesting = @ + 1]
    /\ UNCHANGED unpooled

\* the loop has gone through its items
PoolLoopEnd ==
    /\ pool.pc = "loop"
    /\ pool.todo = 0
    /\ pool' = [pool EXCEPT !.pc = "wait"]
    /\ UNCHANGED unpooled

\* the request of a goroutine ends: with nothing to keep (no firmware for the
\* model, no device at the address), and the goroutine returns; with an entry
\* to write; or, in FetchVersions, with an error to set
WorkerAnswer ==
    /\ pool.requesting > 0
    /\ \E outcome \in {"nothing", "entry", "error"} :
         /\ outcome = "error" => pool.kind = "FetchVersions"
         /\ outcome = "entry" /\ pool.kind = "scanSubnetForDevices" =>
                pool.entries + pool.wantWrite + pool.writing < MaxFound
         /\ pool' = [pool EXCEPT
                !.requesting = @ - 1,
                !.wantWrite = IF outcome = "entry" THEN @ + 1 ELSE @,
                !.wantErr = IF outcome = "error" THEN @ + 1 ELSE @]
    /\ UNCHANGED unpooled

\* mu.Lock of a goroutine with an entry to write
WorkerLockWrite ==
    /\ pool.wantWrite > 0
    /\ MuFree(pool)
    /\ pool' = [pool EXCEPT !.wantWrite = @ - 1, !.writing = @ + 1]
    /\ UNCHANGED unpooled

\* the write to the shared map or list, mu.Unlock and the return
WorkerWrite ==
    /\ pool.writing > 0
    /\ pool' = [pool EXCEPT !.writing = @ - 1, !.entries = @ + 1]
    /\ UNCHANGED unpooled

\* mu.Lock of a goroutine of FetchVersions whose request failed
WorkerLockErr ==
    /\ pool.wantErr > 0
    /\ MuFree(pool)
    /\ pool' = [pool EXCEPT !.wantErr = @ - 1, !.setting = @ + 1]
    /\ UNCHANGED unpooled

\* fetchErr is set when it is not, mu.Unlock and the return
WorkerSetErr ==
    /\ pool.setting > 0
    /\ pool' = [pool EXCEPT !.setting = @ - 1, !.fetchErr = TRUE]
    /\ UNCHANGED unpooled

\* wg.Wait and the return: FetchVersions returns nil and fetchErr when it is
\* set, else the map of the client; the scan returns its devices
PoolReturn ==
    /\ pool.pc = "wait"
    /\ Live(pool) = 0
    /\ pool' = [pool EXCEPT
           !.pc = "returned",
           !.result = IF pool.fetchErr
                      THEN [err |-> TRUE, entries |-> 0, fetched |-> pool.fetched]
                      ELSE [err |-> FALSE, entries |-> pool.entries,
                            fetched |-> pool.fetched]]
    /\ UNCHANGED unpooled

\* FetchVersions is called a second time on the same client
PoolCallAgain ==
    /\ pool.pc = "returned"
    /\ pool.kind = "FetchVersions"
    /\ pool.call = 1
    /\ pool' = [pool EXCEPT !.pc = "called", !.call = 2, !.first = pool.result,
                            !.result = NoResult, !.fetched = FALSE,
                            !.fetchErr = FALSE, !.todo = 0]
    /\ UNCHANGED unpooled

NextPool ==
    \/ PoolCall
    \/ PoolRound
    \/ PoolSpawn
    \/ PoolLoopEnd
    \/ WorkerAnswer
    \/ WorkerLockWrite
    \/ WorkerWrite
    \/ WorkerLockErr
    \/ WorkerSetErr
    \/ PoolReturn
    \/ PoolCallAgain

SpecPool == InitPool /\ [][NextPool]_vars

\* C36: never more than 10 requests of the fan-out of FetchVersions and never
\* more than 50 probes of the subnet scan are under way; both functions
\* return only when all their goroutines have returned; and at most one
\* goroutine at a time writes to the shared catalog map or device list.
C36_BoundedPools ==
    /\ pool.kind = "FetchVersions" => Live(pool) <= 10
    /\ pool.kind = "scanSubnetForDevices" => Live(pool) <= 50
    /\ pool.pc = "returned" => Live(pool) = 0
    /\ pool.writing + pool.setting <= 1

\* C36 witness: ten requests of FetchVersions are under way or wait for the
\* lock, one goroutine writes, and the loop has a model left that waits for
\* a place
C36_Witness ==
    /\ pool.kind = "FetchVersions"
    /\ pool.pc = "spawn"
    /\ pool.todo > 0
    /\ Live(pool) = 10
    /\ pool.writing = 1
    /\ pool.wantWrite > 0
    /\ pool.requesting > 0

\* C37: a call of FetchVersions that returns an error leaves the catalog map
\* of the client empty, as it was before; and when a call has returned the
\* error of a failed Gen2+ request, a next call that succeeds has fetched
\* the catalog again, it does not return what the failed call had built.
C37_FailedFetchLeavesCacheEmpty ==
    pool.kind = "FetchVersions" /\ pool.pc = "returned" =>
        /\ pool.result.err => pool.entries = 0
        /\ pool.call = 2 /\ pool.first.err /\ ~pool.result.err =>
               pool.result.fetched

\* C38: PromptForUpgrades terminates: in force mode the passes come to an
\* end whatever the devices do, so the run never stands at the end of pass
\* MaxPass with one more pass to make.
C38_ForcedRunEnds == force => pc # "capped"

\* a device fetches its firmware from a handler of the OTA server
HandlerInvoked(d) ==
    /\ devOrder[d] # NoURL
    /\ devOrder'[d] = NoURL
    /\ ServeHTTP(deviceHandlers, RequestPath(devOrder[d])).status = 200

\* the goroutine that made the handler has not left its select: it can
\* receive what the handler sends on doneCh
Receiving(handler) ==
    /\ handler.pass = pass
    /\ worker[handler.device].stage \in {"installed", "waiting"}

\* C39: every invocation of a handler returns: whenever a device fetches its
\* firmware, after a timeout or a failed trigger GET as well, the goroutine
\* that made the handler is there to receive the completion signal.
C39_HandlerSignalReceived ==
    [][\A d \in Devs :
           HandlerInvoked(d) =>
               Receiving(ServeHTTP(deviceHandlers, RequestPath(devOrder[d])).handler)]_vars

====
